---- MODULE Spec2Model ----
(***************************************************************************)
(* Model of the grim-fairy-tale-dh-analysis pipeline:                      *)
(*   - EventDumpParser (src/src/parsers.py): the line-scan state machine   *)
(*     of parse_file, _normalize_type and count_commands_by_map;           *)
(*   - run_all_experiments.main (src/run_all_experiments.py);              *)
(*   - SemanticNetwork.process_dialogues (src/src/experiment_3_network.py).*)
(*                                                                         *)
(* Python strings are sequences of one-character strings, so that          *)
(* startswith, strip, split, substring containment and ordering are        *)
(* computed character by character as the code computes them.              *)
(***************************************************************************)
EXTENDS Integers, Sequences, FiniteSets, TLC

VARIABLES
    \* ---- EventDumpParser -------------------------------------------------
    file,           \* the lines of the input file (terminators stripped)
    maps,           \* self.maps
    current_map,    \* local of parse_file: index into maps, 0 = None
    current_event,  \* local of parse_file: [m, e] reference, NoEvent = None
    line_num,       \* number of lines consumed by the running parse_file
    pstate,         \* "idle" | "scanning" | "returned" | "raised"
    returned,       \* outcome of each finished parse_file call, in order
    density_df,     \* rows of the last count_commands_by_map call
    counted,        \* TRUE once count_commands_by_map ran on this parse
    \* ---- run_all_experiments.main ----------------------------------------
    files,          \* status of each required data file
    pc,             \* position of main
    results,        \* the results dict: experiment -> set of keys present
    attempted,      \* experiments whose try block was entered, in order
    outcome,        \* how each attempted experiment ended: "ok" | "raise"
    summary,        \* what print_footer printed
    \* ---- SemanticNetwork -------------------------------------------------
    entities,       \* self.entities
    themes,         \* self.themes
    dialogues,      \* the dialogue texts given to process_dialogues
    co_occurrence,  \* self.co_occurrence: pair key -> count
    d_idx,          \* number of dialogues processed; -1 before the call
    graph,          \* self.graph, NoGraph = None
    communities,    \* self.communities: node -> community id
    net_metrics,    \* the dictionary returned by the last calculate_metrics()
    \* ---- StructuralAlignment ---------------------------------------------
    film_beats,       \* self.film_beats
    game_beats,       \* self.game_beats
    alignment_table,  \* self.alignment_table, NoTable = None
    alignment_score,  \* self.alignment_score, as a fraction num/den
    last_call,        \* the last call on the object and how it ended
    align_metrics,    \* the dictionary returned by the last get_metrics()
    \* ---- MotifEvolution --------------------------------------------------
    motif,            \* self.motif
    context_keywords, \* self.context_keywords, categories in dictionary order
    motif_dialogues,  \* the dialogues extract_instances loops over
    instances,        \* self.instances
    m_idx,            \* dialogues processed by the loop, -1 before the call
    evolution_df,     \* self.evolution_df
    \* ---- NarrativeExtractionParser ---------------------------------------
    n_lines,          \* content.split('\n')
    n_readable,       \* the file can be opened and read
    n_i,              \* the cursor i of the scan
    current_chapter,  \* None or the chapter id
    current_arc,      \* None or the arc id
    current_sequence, \* None or the sequence id
    arcs,             \* self.arcs
    characters,       \* self.characters
    n_dialogues,      \* self.dialogues
    beats,            \* self.beats
    nstate            \* "idle", "scanning", "returned" or "raised"

parserVars == <<file, maps, current_map, current_event, line_num, pstate,
                returned, density_df, counted>>
mainVars   == <<files, pc, results, attempted, outcome, summary>>
netVars    == <<entities, themes, dialogues, co_occurrence, d_idx, graph,
                communities, net_metrics>>
alignVars  == <<film_beats, game_beats, alignment_table, alignment_score,
                last_call, align_metrics>>
motifVars  == <<motif, context_keywords, motif_dialogues, instances, m_idx,
                evolution_df>>
narrVars   == <<n_lines, n_readable, n_i, current_chapter, current_arc,
                current_sequence, arcs, characters, n_dialogues, beats, nstate>>
vars       == <<parserVars, mainVars, netVars, alignVars, motifVars, narrVars>>

(***************************************************************************)
(* Bounds of the model                                                     *)
(***************************************************************************)
MaxLines       == 4    \* lines of a general input file
MaxHeaderLines == 3    \* lines of an input file of header and name lines
MaxDensityCmds == 10   \* commands in the one-event density files
MaxCatCmds     == 2    \* commands in the one-event category files
MaxContLines   == 3    \* lines of the one-event continuation files
MaxCalls       == 2    \* parse_file calls in one behaviour
MaxDialogues   == 2    \* dialogues given to process_dialogues
MaxKeywords    == 2    \* length of the entity list and of the theme list
MaxThreshold   == 3    \* largest threshold given to build_network
MaxCommunityEntities  == 1 \* entities of a community run
MaxCommunityThemes    == 2 \* themes of a community run
MaxCommunityDialogues == 2 \* dialogues of a community run
MaxFilmBeats   == 3    \* film beats of a matching list
MaxGameBeats   == 3    \* game beats of a matching list
MaxStampBeats  == 2    \* film beats of a timestamp list
MaxMotifKeywords  == 2 \* keywords of a context category
MaxMotifDialogues == 2 \* dialogues given to extract_instances
MaxOutlineLines   == 4 \* lines of an outline of headings, beats and dialogues
MaxBlockLines     == 3 \* lines of a sequence block
MaxSpeakerLines   == 3 \* lines of an input of dialogues and speaker lines
MaxContextLines   == 2 \* lines after the first sequence of an outline

(***************************************************************************)
(* Python str operations                                                   *)
(***************************************************************************)
Whitespace == {" ", "\t"}

StartsWith(s, p) == Len(s) >= Len(p) /\ SubSeq(s, 1, Len(p)) = p

\* p in s
Contains(p, s) ==
    \E i \in 0..(Len(s) - Len(p)) : SubSeq(s, i + 1, i + Len(p)) = p

\* s.strip()
Strip(s) ==
    LET keep == {i \in 1..Len(s) : s[i] \notin Whitespace}
    IN  IF keep = {} THEN <<>>
        ELSE LET lo == CHOOSE i \in keep : \A j \in keep : i <= j
                 hi == CHOOSE i \in keep : \A j \in keep : i >= j
             IN  SubSeq(s, lo, hi)

\* s.lstrip(), used for the \s* of a regular expression
LStrip(s) ==
    LET keep == {i \in 1..Len(s) : s[i] \notin Whitespace}
    IN  IF keep = {} THEN <<>>
        ELSE SubSeq(s, CHOOSE i \in keep : \A j \in keep : i <= j, Len(s))

\* index of the first occurrence of character c at or after position from,
\* Len(s) + 1 when there is none
FindChar(s, c, from) ==
    LET hits == {i \in from..Len(s) : s[i] = c}
    IN  IF hits = {} THEN Len(s) + 1
        ELSE CHOOSE i \in hits : \A j \in hits : i <= j

\* s.split(':')[1] for an s that contains a colon
SplitColon1(s) ==
    LET c1 == FindChar(s, ":", 1)
        c2 == FindChar(s, ":", c1 + 1)
    IN  SubSeq(s, c1 + 1, c2 - 1)

\* s.split(':', 1)[1] for an s that contains a colon
SplitColonRest(s) == SubSeq(s, FindChar(s, ":", 1) + 1, Len(s))

Digits == <<"0", "1", "2", "3", "4", "5", "6", "7", "8", "9">>

IsDigit(c) == \E i \in 1..Len(Digits) : Digits[i] = c

\* int(s) succeeds: optional sign, then one or more digits (s already
\* stripped; underscores and non-ASCII digits are outside the alphabet)
IsIntLiteral(s) ==
    LET body == IF Len(s) > 0 /\ s[1] \in {"+", "-"} THEN Tail(s) ELSE s
    IN  Len(body) > 0 /\ \A i \in 1..Len(body) : IsDigit(body[i])

RECURSIVE DigitsVal(_)
DigitsVal(s) ==
    IF s = <<>> THEN 0
    ELSE 10 * DigitsVal(SubSeq(s, 1, Len(s) - 1)) + (CHOOSE i \in 1..Len(Digits) : Digits[i] = s[Len(s)]) - 1

\* int(s) for an s with IsIntLiteral(s)
IntOf(s) ==
    IF s[1] = "-" THEN 0 - DigitsVal(Tail(s))
    ELSE IF s[1] = "+" THEN DigitsVal(Tail(s))
    ELSE DigitsVal(s)

(***************************************************************************)
(* EventDumpParser: the command classification table                       *)
(***************************************************************************)
COMMAND_TYPES == <<
    [category |-> "Text",       patterns |-> << <<"T", "e", "x", "t">> >>],
    [category |-> "Battle",     patterns |-> << <<"B", "a", "t", "t", "l", "e", " ", "P", "r", "o", "c", "e", "s", "s", "i", "n", "g">> >>],
    [category |-> "Logic",      patterns |-> << <<"C", "o", "n", "d", "i", "t", "i", "o", "n", "a", "l", " ", "B", "r", "a", "n", "c", "h">>,
         <<"C", "o", "n", "t", "r", "o", "l", " ", "S", "w", "i", "t", "c", "h", "e", "s">>, <<"C", "o", "n", "t", "r", "o", "l", " ", "V", "a", "r", "i", "a", "b", "l", "e", "s">>, <<"L", "o", "o", "p">>,
         <<"B", "r", "e", "a", "k", " ", "L", "o", "o", "p">>, <<"E", "x", "i", "t", " ", "E", "v", "e", "n", "t", " ", "P", "r", "o", "c", "e", "s", "s", "i", "n", "g">>, <<"S", "c", "r", "i", "p", "t">> >>],
    [category |-> "Navigation", patterns |-> << <<"T", "r", "a", "n", "s", "f", "e", "r", " ", "P", "l", "a", "y", "e", "r">>,
         <<"S", "e", "t", " ", "M", "o", "v", "e", " ", "R", "o", "u", "t", "e">>, <<"W", "a", "i", "t", " ", "f", "o", "r", " ", "M", "o", "v", "e">> >>],
    [category |-> "Party",      patterns |-> << <<"C", "h", "a", "n", "g", "e", " ", "P", "a", "r", "t", "y", " ", "M", "e", "m", "b", "e", "r">>,
         <<"C", "h", "a", "n", "g", "e", " ", "I", "t", "e", "m", "s">>, <<"C", "h", "a", "n", "g", "e", " ", "G", "o", "l", "d">> >>],
    [category |-> "Audio",      patterns |-> << <<"P", "l", "a", "y", " ", "B", "G", "M">>, <<"P", "l", "a", "y", " ", "S", "E">>,
         <<"S", "t", "o", "p", " ", "B", "G", "M">>, <<"C", "h", "a", "n", "g", "e", " ", "B", "G", "S">> >>],
    [category |-> "Visual",     patterns |-> << <<"C", "h", "a", "n", "g", "e", " ", "T", "r", "a", "n", "s", "p", "a", "r", "e", "n", "t">>,
         <<"S", "h", "o", "w", " ", "A", "n", "i", "m", "a", "t", "i", "o", "n">>, <<"S", "h", "o", "w", " ", "P", "i", "c", "t", "u", "r", "e">>, <<"E", "r", "a", "s", "e", " ", "P", "i", "c", "t", "u", "r", "e">>,
         <<"S", "c", "r", "e", "e", "n", " ", "T", "o", "n", "e">>, <<"F", "l", "a", "s", "h", " ", "S", "c", "r", "e", "e", "n">>, <<"S", "h", "a", "k", "e", " ", "S", "c", "r", "e", "e", "n">> >>],
    [category |-> "Message",    patterns |-> << <<"S", "h", "o", "w", " ", "C", "h", "o", "i", "c", "e", "s">>,
         <<"I", "n", "p", "u", "t", " ", "N", "u", "m", "b", "e", "r">>, <<"M", "e", "s", "s", "a", "g", "e", " ", "W", "i", "n", "d", "o", "w">> >>],
    [category |-> "Common",     patterns |-> << <<"C", "a", "l", "l", " ", "C", "o", "m", "m", "o", "n", " ", "E", "v", "e", "n", "t">> >>],
    [category |-> "Wait",       patterns |-> << <<"W", "a", "i", "t">> >>],
    [category |-> "Other",      patterns |-> << >>] >>

Categories == {COMMAND_TYPES[i].category : i \in 1..Len(COMMAND_TYPES)}

\* any(p in cmd_type for p in patterns)
AnyPattern(patterns, cmd_type) ==
    \E k \in 1..Len(patterns) : Contains(patterns[k], cmd_type)

\* _normalize_type with the last matching category winning
NormalizeTypeLast(cmd_type) ==
    LET hits == {i \in 1..Len(COMMAND_TYPES) :
                    AnyPattern(COMMAND_TYPES[i].patterns, cmd_type)}
    IN  IF hits = {} THEN "Other"
        ELSE COMMAND_TYPES[CHOOSE i \in hits : \A j \in hits : i >= j].category

\* _normalize_type(cmd_type): the first category of the table, in
\* declaration order, one of whose keywords occurs in the raw label
NormalizeType(cmd_type) ==
    LET hits == {i \in 1..Len(COMMAND_TYPES) :
                    AnyPattern(COMMAND_TYPES[i].patterns, cmd_type)}
    IN  IF hits = {} THEN "Other"
        ELSE COMMAND_TYPES[CHOOSE i \in hits : \A j \in hits : i <= j].category

\* _extract_command_type(line): re.match(r'@>([^:]+)(?::|$)', line.strip())
ExtractCommandType(line) ==
    LET s  == Strip(line)
        c1 == FindChar(s, ":", 1)
    IN  IF StartsWith(s, <<"@", ">">>) /\ c1 > 3
        THEN Strip(SubSeq(s, 3, c1 - 1))
        ELSE <<"U", "n", "k", "n", "o", "w", "n">>

\* _extract_content(line): re.match(r'@>[^:]+:\s*(.*)', line.strip())
ExtractContent(line) ==
    LET s  == Strip(line)
        c1 == FindChar(s, ":", 1)
    IN  IF StartsWith(s, <<"@", ">">>) /\ c1 > 3 /\ c1 <= Len(s)
        THEN Strip(LStrip(SubSeq(s, c1 + 1, Len(s))))
        ELSE <<>>

(***************************************************************************)
(* EventDumpParser.parse_file                                              *)
(***************************************************************************)
NoEvent == [m |-> 0, e |-> 0]

\* the if/elif chain with a header whose id is not numeric passed over
BranchSkipBadId(line, cm, ce) ==
    IF StartsWith(line, <<"M", "a", "p", " ", "I", "D", ":">>)
    THEN IF IsIntLiteral(Strip(SplitColon1(line))) THEN "map_id" ELSE "ignored"
    ELSE IF StartsWith(line, <<"M", "a", "p", " ", "N", "a", "m", "e", ":">>) /\ cm # 0 THEN "map_name"
    ELSE IF StartsWith(line, <<"E", "v", "e", "n", "t", " ", "I", "D", ":">>) /\ cm # 0
         THEN IF IsIntLiteral(Strip(SplitColon1(line))) THEN "event_id"
              ELSE "ignored"
    ELSE IF StartsWith(line, <<"E", "v", "e", "n", "t", " ", "N", "a", "m", "e", ":">>) /\ ce # NoEvent
         THEN "event_name"
    ELSE IF StartsWith(Strip(line), <<"@", ">">>) /\ ce # NoEvent THEN "command"
    ELSE IF StartsWith(Strip(line), <<":", " ", " ", " ", " ", ":">>) /\ ce # NoEvent
         THEN "continuation"
    ELSE "ignored"

\* which arm of the if/elif chain of the loop body takes the line
Branch(line, cm, ce) ==
    IF StartsWith(line, <<"M", "a", "p", " ", "I", "D", ":">>) THEN "map_id"
    ELSE IF StartsWith(line, <<"M", "a", "p", " ", "N", "a", "m", "e", ":">>) /\ cm # 0 THEN "map_name"
    ELSE IF StartsWith(line, <<"E", "v", "e", "n", "t", " ", "I", "D", ":">>) /\ cm # 0 THEN "event_id"
    ELSE IF StartsWith(line, <<"E", "v", "e", "n", "t", " ", "N", "a", "m", "e", ":">>) /\ ce # NoEvent
         THEN "event_name"
    ELSE IF StartsWith(Strip(line), <<"@", ">">>) /\ ce # NoEvent THEN "command"
    ELSE IF StartsWith(Strip(line), <<":", " ", " ", " ", " ", ":">>) /\ ce # NoEvent
         THEN "continuation"
    ELSE "ignored"

\* the text handed to int() by a header line: line.split(':')[1].strip()
HeaderIdField(line) == Strip(SplitColon1(line))

NewCommand(line, n) ==
    [type            |-> ExtractCommandType(line),
     normalized_type |-> NormalizeType(ExtractCommandType(line)),
     line            |-> n,
     content         |-> ExtractContent(line),
     raw             |-> Strip(line)]

\* the value self.maps is bound to when parse_file is entered
EntryMapsKeep(old) == old

EntryMaps(old) == <<>>

\* the text a continuation line contributes: '\n' + line.strip()[6:].strip()
ContinuationText(line) ==
    <<"\n">> \o Strip(SubSeq(Strip(line), 7, Len(Strip(line))))

Idle == pstate \in {"idle", "returned", "raised"}

\* the line being read by the running loop iteration
CurLine == file[line_num + 1]

Scanning == pstate = "scanning" /\ line_num < Len(file)

\* EventDumpParser(): a fresh instance
NewParser ==
    /\ pstate \in {"returned", "raised"}
    /\ Len(returned) < MaxCalls
    /\ maps' = <<>>
    /\ pstate' = "idle"
    /\ counted' = FALSE
    /\ density_df' = <<>>
    /\ UNCHANGED <<file, current_map, current_event, line_num, returned>>
    /\ UNCHANGED <<mainVars, netVars, alignVars, motifVars, narrVars>>

\* parse_file is entered: self.maps = [], the two locals are None
ParseFileBegin ==
    /\ Idle
    /\ Len(returned) < MaxCalls
    /\ maps' = EntryMaps(maps)
    /\ current_map' = 0
    /\ current_event' = NoEvent
    /\ line_num' = 0
    /\ pstate' = "scanning"
    /\ counted' = FALSE
    /\ density_df' = <<>>
    /\ UNCHANGED <<file, returned>>
    /\ UNCHANGED <<mainVars, netVars, alignVars, motifVars, narrVars>>

\* "Map ID:" line with a numeric id
MapHeader ==
    /\ Scanning
    /\ Branch(CurLine, current_map, current_event) = "map_id"
    /\ IsIntLiteral(HeaderIdField(CurLine))
    /\ maps' = Append(maps, [id     |-> IntOf(HeaderIdField(CurLine)),
                          name   |-> <<>>,
                          events |-> <<>>])
    /\ current_map' = Len(maps) + 1
    /\ line_num' = line_num + 1
    /\ UNCHANGED <<file, current_event, pstate, returned, density_df, counted>>
    /\ UNCHANGED <<mainVars, netVars, alignVars, motifVars, narrVars>>

\* "Map ID:" line whose id makes int() raise ValueError
MapHeaderBadId ==
    /\ Scanning
    /\ Branch(CurLine, current_map, current_event) = "map_id"
    /\ ~IsIntLiteral(HeaderIdField(CurLine))
    /\ pstate' = "raised"
    /\ returned' = Append(returned, [status |-> "ValueError", maps |-> maps])
    /\ UNCHANGED <<file, maps, current_map, current_event, line_num,
                   density_df, counted>>
    /\ UNCHANGED <<mainVars, netVars, alignVars, motifVars, narrVars>>

\* "Map Name:" line
MapName ==
    /\ Scanning
    /\ Branch(CurLine, current_map, current_event) = "map_name"
    /\ maps' = [maps EXCEPT ![current_map].name =
                                Strip(SplitColonRest(CurLine))]
    /\ line_num' = line_num + 1
    /\ UNCHANGED <<file, current_map, current_event, pstate, returned,
                   density_df, counted>>
    /\ UNCHANGED <<mainVars, netVars, alignVars, motifVars, narrVars>>

\* "Event ID:" line with a numeric id
EventHeader ==
    /\ Scanning
    /\ Branch(CurLine, current_map, current_event) = "event_id"
    /\ IsIntLiteral(HeaderIdField(CurLine))
    /\ maps' = [maps EXCEPT ![current_map].events =
                   Append(@, [id       |-> IntOf(HeaderIdField(CurLine)),
                              name     |-> <<>>,
                              commands |-> <<>>])]
    /\ current_event' = [m |-> current_map,
                         e |-> Len(maps[current_map].events) + 1]
    /\ line_num' = line_num + 1
    /\ UNCHANGED <<file, current_map, pstate, returned, density_df, counted>>
    /\ UNCHANGED <<mainVars, netVars, alignVars, motifVars, narrVars>>

\* "Event ID:" line whose id makes int() raise ValueError
EventHeaderBadId ==
    /\ Scanning
    /\ Branch(CurLine, current_map, current_event) = "event_id"
    /\ ~IsIntLiteral(HeaderIdField(CurLine))
    /\ pstate' = "raised"
    /\ returned' = Append(returned, [status |-> "ValueError", maps |-> maps])
    /\ UNCHANGED <<file, maps, current_map, current_event, line_num,
                   density_df, counted>>
    /\ UNCHANGED <<mainVars, netVars, alignVars, motifVars, narrVars>>

\* "Event Name:" line
EventName ==
    /\ Scanning
    /\ Branch(CurLine, current_map, current_event) = "event_name"
    /\ maps' = [maps EXCEPT ![current_event.m].events[current_event.e].name =
                                Strip(SplitColonRest(CurLine))]
    /\ line_num' = line_num + 1
    /\ UNCHANGED <<file, current_map, current_event, pstate, returned,
                   density_df, counted>>
    /\ UNCHANGED <<mainVars, netVars, alignVars, motifVars, narrVars>>

\* "@>" command line
CommandLine ==
    /\ Scanning
    /\ Branch(CurLine, current_map, current_event) = "command"
    /\ maps' = [maps EXCEPT
                  ![current_event.m].events[current_event.e].commands =
                      Append(@, NewCommand(CurLine, line_num + 1))]
    /\ line_num' = line_num + 1
    /\ UNCHANGED <<file, current_map, current_event, pstate, returned,
                   density_df, counted>>
    /\ UNCHANGED <<mainVars, netVars, alignVars, motifVars, narrVars>>

\* ":    :" dialogue continuation line
ContinuationLine ==
    /\ Scanning
    /\ Branch(CurLine, current_map, current_event) = "continuation"
    /\ LET cmds == maps[current_event.m].events[current_event.e].commands
       IN  IF cmds # <<>> /\ cmds[Len(cmds)].type = <<"T", "e", "x", "t">>
           THEN maps' = [maps EXCEPT
                  ![current_event.m].events[current_event.e]
                     .commands[Len(cmds)].content =
                         @ \o ContinuationText(CurLine)]
           ELSE maps' = maps
    /\ line_num' = line_num + 1
    /\ UNCHANGED <<file, current_map, current_event, pstate, returned,
                   density_df, counted>>
    /\ UNCHANGED <<mainVars, netVars, alignVars, motifVars, narrVars>>

\* a line no arm of the chain takes
IgnoredLine ==
    /\ Scanning
    /\ Branch(CurLine, current_map, current_event) = "ignored"
    /\ line_num' = line_num + 1
    /\ UNCHANGED <<file, maps, current_map, current_event, pstate, returned,
                   density_df, counted>>
    /\ UNCHANGED <<mainVars, netVars, alignVars, motifVars, narrVars>>

\* end of file: return self.maps
ParseFileReturn ==
    /\ pstate = "scanning"
    /\ line_num = Len(file)
    /\ pstate' = "returned"
    /\ returned' = Append(returned, [status |-> "ok", maps |-> maps])
    /\ UNCHANGED <<file, maps, current_map, current_event, line_num,
                   density_df, counted>>
    /\ UNCHANGED <<mainVars, netVars, alignVars, motifVars, narrVars>>

(***************************************************************************)
(* EventDumpParser.count_commands_by_map                                   *)
(***************************************************************************)
\* the classification thresholds 0.7 and 0.3, in tenths
StoryHeavyTenths == 7
MixedTenths      == 3

\* counts[cat] after the two nested loops over a map's events
RECURSIVE Counts(_, _)
Counts(events, cat) ==
    IF events = <<>> THEN 0
    ELSE Cardinality({i \in 1..Len(Head(events).commands) :
                         Head(events).commands[i].normalized_type = cat})
            + Counts(Tail(events), cat)

\* other = Other + Message + Wait, without the Party commands
OtherBucketNoParty(events) ==
    Counts(events, "Other") + Counts(events, "Message")
      + Counts(events, "Wait")

\* other = Other + Message + Wait + Party
OtherBucket(events) ==
    Counts(events, "Other") + Counts(events, "Message")
      + Counts(events, "Wait") + Counts(events, "Party")

\* density as the ratio of dialogue to the remaining commands
DensityVsRest(dialogue, total) ==
    IF total - dialogue > 0 THEN [num |-> dialogue, den |-> total - dialogue]
    ELSE [num |-> 0, den |-> 1]

\* density = dialogue / total if total > 0 else 0, as the fraction num/den
Density(dialogue, total) ==
    IF total > 0 THEN [num |-> dialogue, den |-> total]
    ELSE [num |-> 0, den |-> 1]

\* _classify_density with the lower boundary included in 'Mixed'
ClassifyDensityInclusive(d) ==
    IF 10 * d.num > StoryHeavyTenths * d.den THEN "Story-Heavy"
    ELSE IF 10 * d.num >= MixedTenths * d.den THEN "Mixed"
    ELSE "Combat/Traversal"

\* _classify_density(density).  The float quotient dialogue/total compares
\* with the float literals 0.7 and 0.3 as the exact fraction compares with
\* 7/10 and 3/10 (both are correctly rounded; counts are far below 2^52).
ClassifyDensity(d) ==
    IF 10 * d.num > StoryHeavyTenths * d.den THEN "Story-Heavy"
    ELSE IF 10 * d.num > MixedTenths * d.den THEN "Mixed"
    ELSE "Combat/Traversal"

\* round(density, 4) in units of 1/10000 (round-half-even; exact for the
\* float quotient as long as total < 160)
Round4(d) ==
    LET q == (10000 * d.num) \div d.den
        r == (10000 * d.num) % d.den
    IN  IF 2 * r > d.den \/ (2 * r = d.den /\ q % 2 = 1) THEN q + 1 ELSE q

\* the row appended for one map; density keeps the unrounded local
MapRow(m) ==
    LET dialogue   == Counts(m.events, "Text")
        battle     == Counts(m.events, "Battle") + Counts(m.events, "Common")
        logic      == Counts(m.events, "Logic")
        navigation == Counts(m.events, "Navigation")
        visual     == Counts(m.events, "Visual") + Counts(m.events, "Audio")
        other      == OtherBucket(m.events)
        total      == dialogue + battle + logic + navigation + visual + other
        density    == Density(dialogue, total)
    IN  [map_id             |-> m.id,
         map_name           |-> m.name,
         dialogue_count     |-> dialogue,
         battle_count       |-> battle,
         logic_count        |-> logic,
         navigation_count   |-> navigation,
         visual_audio_count |-> visual,
         other_count        |-> other,
         total_commands     |-> total,
         density            |-> density,
         narrative_density  |-> Round4(density),
         classification     |-> ClassifyDensity(density)]

\* count_commands_by_map()
CountCommandsByMap ==
    /\ Idle
    /\ ~counted
    /\ density_df' = [i \in 1..Len(maps) |-> MapRow(maps[i])]
    /\ counted' = TRUE
    /\ UNCHANGED <<file, maps, current_map, current_event, line_num, pstate,
                   returned>>
    /\ UNCHANGED <<mainVars, netVars, alignVars, motifVars, narrVars>>

(***************************************************************************)
(* Input files of the parser                                               *)
(***************************************************************************)
\* "@>label: content"
CmdLine(label, content) == <<"@", ">">> \o label \o <<":", " ">> \o content

LnMap1      == <<"M", "a", "p", " ", "I", "D", ":", " ", "1">>
LnMap2      == <<"M", "a", "p", " ", "I", "D", ":", " ", "0", "2">>
LnMapBad    == <<"M", "a", "p", " ", "I", "D", ":", " ", "x">>
LnMapName   == <<"M", "a", "p", " ", "N", "a", "m", "e", ":", " ", "C", "a", "m", "p">>
LnEvent1    == <<"E", "v", "e", "n", "t", " ", "I", "D", ":", " ", "1">>
LnEventBad  == <<"E", "v", "e", "n", "t", " ", "I", "D", ":", " ">>
LnEventName == <<"E", "v", "e", "n", "t", " ", "N", "a", "m", "e", ":", " ", "E", "v">>
LnText      == CmdLine(<<"T", "e", "x", "t">>, <<"h", "i">>)
LnBattle    == <<" ", " ">> \o CmdLine(<<"B", "a", "t", "t", "l", "e", " ", "P", "r", "o", "c", "e", "s", "s", "i", "n", "g">>, <<"3">>)
LnCont      == <<":", " ", " ", " ", " ", ":", " ", "y", "o">>

GenLines == {LnMap1, LnMap2, LnEvent1, LnText, LnBattle, LnCont}

HeaderLines == {LnMap1, LnMapBad, LnMapName, LnEvent1, LnEventBad,
                LnEventName, LnText}

\* every sequence of at most n elements of S
SeqsUpTo(S, n) == UNION {[1..k -> S] : k \in 0..n}

\* n copies of x
Repeat(x, n) == [i \in 1..n |-> x]

\* files of any shape: several maps and events, commands, continuations
GenFiles == SeqsUpTo(GenLines, MaxLines)

\* files with name lines and with headers whose id is not numeric
HeaderFiles == SeqsUpTo(HeaderLines, MaxHeaderLines)

\* one map, one event, d Text commands and t - d Battle commands
DensityFile(d, t) ==
    <<LnMap1, LnEvent1>> \o Repeat(LnText, d) \o Repeat(LnBattle, t - d)

DensityFiles ==
    {DensityFile(d, t) : d \in 0..MaxDensityCmds, t \in 0..MaxDensityCmds}
      \ {DensityFile(d, t) : d \in 1..MaxDensityCmds, t \in 0..0}

\* raw labels: one per category of the table, labels that only contain a
\* keyword, and a label that contains none
CatLabels == { <<"T", "e", "x", "t">>, <<"B", "a", "t", "t", "l", "e", " ", "P", "r", "o", "c", "e", "s", "s", "i", "n", "g">>, <<"S", "c", "r", "i", "p", "t">>,
               <<"W", "a", "i", "t", " ", "f", "o", "r", " ", "M", "o", "v", "e">>, <<"C", "h", "a", "n", "g", "e", " ", "G", "o", "l", "d">>, <<"P", "l", "a", "y", " ", "S", "E">>,
               <<"S", "h", "o", "w", " ", "P", "i", "c", "t", "u", "r", "e">>, <<"S", "h", "o", "w", " ", "C", "h", "o", "i", "c", "e", "s">>, <<"C", "a", "l", "l", " ", "C", "o", "m", "m", "o", "n", " ", "E", "v", "e", "n", "t">>,
               <<"W", "a", "i", "t">>, <<"L", "a", "b", "e", "l">>, <<"S", "h", "o", "w", " ", "T", "e", "x", "t">>,
               <<"W", "a", "i", "t", " ", "f", "o", "r", " ", "M", "o", "v", "e", "'", "s", " ", "C", "o", "m", "p", "l", "e", "t", "i", "o", "n">> }

\* one map, one event, at most MaxCatCmds commands of any label
CatFiles ==
    { <<LnMap1, LnEvent1>> \o [i \in 1..Len(ls) |-> CmdLine(ls[i], <<"x">>)] :
        ls \in SeqsUpTo(CatLabels, MaxCatCmds) }

LnShowText == CmdLine(<<"S", "h", "o", "w", " ", "T", "e", "x", "t">>, <<"h", "i">>)

\* one map, one event, then commands and continuation lines in any order
ContFiles ==
    { <<LnMap1, LnEvent1>> \o ls :
        ls \in SeqsUpTo({LnText, LnShowText, LnBattle, LnCont}, MaxContLines) }


(***************************************************************************)
(* run_all_experiments.main                                                *)
(***************************************************************************)
\* required_files of verify_data_files
RequiredFiles == <<"data/EventTextDump.txt", "data/narrative_extraction.md",
                   "data/ballad_of_soldier_beats.json",
                   "data/context_keywords.json">>

FileNames == {RequiredFiles[i] : i \in 1..Len(RequiredFiles)}

\* the four try blocks of main, in program order
Experiments == <<"exp1", "exp2", "exp3", "exp4">>

\* the data files opened by run() of each experiment
Reads(k) ==
    CASE k = "exp1" -> {"data/ballad_of_soldier_beats.json",
                        "data/context_keywords.json"}
      [] k = "exp2" -> {"data/EventTextDump.txt"}
      [] k = "exp3" -> {"data/context_keywords.json",
                        "data/EventTextDump.txt"}
      [] k = "exp4" -> {"data/context_keywords.json",
                        "data/EventTextDump.txt"}

\* Path(f).exists()
Exists(f) == files[f] # "missing"

\* verify_data_files returns only when one of the files exists
VerifyPassesAny == \E i \in 1..Len(RequiredFiles) : Exists(RequiredFiles[i])

\* verify_data_files returns (missing is empty) instead of sys.exit(1)
VerifyPasses == \A i \in 1..Len(RequiredFiles) : Exists(RequiredFiles[i])

\* the section of main that follows the try block of experiment k
NextStage(k) ==
    CASE k = "exp1" -> "exp2"
      [] k = "exp2" -> "exp3"
      [] k = "exp3" -> "exp4"
      [] k = "exp4" -> "footer"

\* an except clause that lets the exception escape main
AfterRaiseAbort(k) == "crashed"

\* an except clause that falls through past the following try block
AfterRaiseSkip(k) == IF k = "exp4" THEN "footer" ELSE NextStage(NextStage(k))

\* where main continues after the except clause of experiment k
AfterRaise(k) == NextStage(k)

\* results[k] = v
Store(d, k, v) == [e \in DOMAIN d \cup {k} |-> IF e = k THEN v ELSE d[e]]

\* print_footer prints a line for every experiment that has an entry
FooterLineAny(res, k) == k \in DOMAIN res

\* print_footer prints the "[Exp k]" line
FooterLine(res, k) == k \in DOMAIN res /\ "metrics" \in res[k]

NoSummary == [printed |-> FALSE, metrics_count |-> 0, metric_lines |-> {}]

\* print_header()
PrintHeader ==
    /\ pc = "start"
    /\ pc' = "setup"
    /\ UNCHANGED <<files, results, attempted, outcome, summary>>
    /\ UNCHANGED <<parserVars, netVars, alignVars, motifVars, narrVars>>

\* ensure_directories(): os.makedirs succeeds
EnsureDirectories ==
    /\ pc = "setup"
    /\ pc' = "verify"
    /\ UNCHANGED <<files, results, attempted, outcome, summary>>
    /\ UNCHANGED <<parserVars, netVars, alignVars, motifVars, narrVars>>

\* ensure_directories(): os.makedirs raises OSError, which main lets escape
EnsureDirectoriesRaises ==
    /\ pc = "setup"
    /\ pc' = "crashed"
    /\ UNCHANGED <<files, results, attempted, outcome, summary>>
    /\ UNCHANGED <<parserVars, netVars, alignVars, motifVars, narrVars>>

\* verify_data_files(): every required file exists; results = {}
VerifyDataFiles ==
    /\ pc = "verify"
    /\ VerifyPasses
    /\ pc' = "exp1"
    /\ results' = <<>>
    /\ UNCHANGED <<files, attempted, outcome, summary>>
    /\ UNCHANGED <<parserVars, netVars, alignVars, motifVars, narrVars>>

\* verify_data_files(): a file is missing, sys.exit(1)
VerifyDataFilesExit ==
    /\ pc = "verify"
    /\ ~VerifyPasses
    /\ pc' = "exited"
    /\ UNCHANGED <<files, results, attempted, outcome, summary>>
    /\ UNCHANGED <<parserVars, netVars, alignVars, motifVars, narrVars>>

\* try block of experiment k: the constructor and run() return
RunExperiment(k) ==
    /\ pc = k
    /\ \A f \in Reads(k) : files[f] = "ok"
    /\ attempted' = Append(attempted, k)
    /\ outcome' = Store(outcome, k, "ok")
    /\ results' = Store(results, k, {"metrics", "figures", "tables"})
    /\ pc' = NextStage(k)
    /\ UNCHANGED <<files, summary>>
    /\ UNCHANGED <<parserVars, netVars, alignVars, motifVars, narrVars>>

\* try block of experiment k: run() raises an Exception (always when a
\* file it opens cannot be read), the except clause stores the error entry
RunExperimentRaises(k) ==
    /\ pc = k
    /\ attempted' = Append(attempted, k)
    /\ outcome' = Store(outcome, k, "raise")
    /\ results' = Store(results, k, {"error"})
    /\ pc' = AfterRaise(k)
    /\ UNCHANGED <<files, summary>>
    /\ UNCHANGED <<parserVars, netVars, alignVars, motifVars, narrVars>>

\* print_footer(results, duration)
PrintFooter ==
    /\ pc = "footer"
    /\ summary' = [printed       |-> TRUE,
                   metrics_count |-> Cardinality(DOMAIN results),
                   metric_lines  |-> {Experiments[i] : i \in
                       {j \in 1..Len(Experiments) :
                           FooterLine(results, Experiments[j])}}]
    /\ pc' = "done"
    /\ UNCHANGED <<files, results, attempted, outcome>>
    /\ UNCHANGED <<parserVars, netVars, alignVars, motifVars, narrVars>>

(***************************************************************************)
(* SemanticNetwork.process_dialogues                                       *)
(***************************************************************************)
\* the characters of the keyword model, in code-point order
CodeOrder == <<"a", "b">>

\* ord(c)
Ord(c) == CHOOSE i \in 1..Len(CodeOrder) : CodeOrder[i] = c

\* a <= b for Python strings
RECURSIVE StrLE(_, _)
StrLE(a, b) ==
    IF a = <<>> THEN TRUE
    ELSE IF b = <<>> THEN FALSE
    ELSE IF Head(a) = Head(b) THEN StrLE(Tail(a), Tail(b))
    ELSE Ord(Head(a)) < Ord(Head(b))

\* the pair key without normalisation of the order
UnsortedPair(kw1, kw2) == <<kw1, kw2>>

\* tuple(sorted([kw1, kw2]))
SortedPair(kw1, kw2) == IF StrLE(kw1, kw2) THEN <<kw1, kw2>> ELSE <<kw2, kw1>>

\* dialogue.get('text', '') or ''
TextOf(dialogue) == IF dialogue.has_text THEN dialogue.text ELSE <<>>

\* the sub-list of the elements of list that satisfy keep
RECURSIVE Filter(_, _)
Filter(list, keep) ==
    IF list = <<>> THEN <<>>
    ELSE IF keep[Head(list)] THEN <<Head(list)>> \o Filter(Tail(list), keep)
    ELSE Filter(Tail(list), keep)

\* present = [kw for kw in all_keywords if kw in text]
Present(all_keywords, text) ==
    Filter(all_keywords,
           [kw \in {all_keywords[i] : i \in 1..Len(all_keywords)} |->
               Contains(kw, text)])

\* how many of combinations(present, 2) are normalised to the key pair
Increments(present, pair) ==
    Cardinality({ij \in (1..Len(present)) \X (1..Len(present)) :
                    /\ ij[1] < ij[2]
                    /\ SortedPair(present[ij[1]], present[ij[2]]) = pair})

\* the keys touched by one dialogue
PairsOf(present) ==
    {SortedPair(present[ij[1]], present[ij[2]]) :
        ij \in {p \in (1..Len(present)) \X (1..Len(present)) : p[1] < p[2]}}

\* co_occurrence[pair], a defaultdict(int) read without inserting
CoCount(co, pair) == IF pair \in DOMAIN co THEN co[pair] ELSE 0

\* co_occurrence after the inner loop over combinations(present, 2)
AddDialogue(co, present) ==
    [pair \in DOMAIN co \cup PairsOf(present) |->
        CoCount(co, pair) + Increments(present, pair)]

\* process_dialogues is entered: self.co_occurrence = defaultdict(int)
ProcessBegin ==
    /\ d_idx = -1
    /\ co_occurrence' = <<>>
    /\ d_idx' = 0
    /\ UNCHANGED <<entities, themes, dialogues, graph, communities, net_metrics>>
    /\ UNCHANGED <<parserVars, mainVars, alignVars, motifVars, narrVars>>

\* one iteration of the loop over dialogues
ProcessDialogue ==
    /\ d_idx >= 0
    /\ d_idx < Len(dialogues)
    /\ co_occurrence' =
          AddDialogue(co_occurrence,
                      Present(entities \o themes,
                              TextOf(dialogues[d_idx + 1])))
    /\ d_idx' = d_idx + 1
    /\ UNCHANGED <<entities, themes, dialogues, graph, communities, net_metrics>>
    /\ UNCHANGED <<parserVars, mainVars, alignVars, motifVars, narrVars>>

(***************************************************************************)
(* SemanticNetwork.build_network                                           *)
(***************************************************************************)
NoGraph == [built |-> FALSE, threshold |-> 0, nodes |-> {}, node_type |-> <<>>,
            edges |-> <<>>]

\* an edge is added only above the threshold
QualifiesAbove(weight, threshold) == weight > threshold

\* if weight >= threshold
Qualifies(weight, threshold) == weight >= threshold

\* the nodes added before the edges: every entity and every theme
AddedNodes == {(entities \o themes)[i] : i \in 1..Len(entities \o themes)}

\* node_type of a node: the theme loop runs last and overwrites
NodeType(n) ==
    IF \E i \in 1..Len(themes) : themes[i] = n THEN "theme" ELSE "entity"

\* the keys of co_occurrence for which add_edge is called
EdgeKeys(co, threshold) ==
    {key \in DOMAIN co : Qualifies(co[key], threshold)}

\* the edges of the undirected graph, each the set of its endpoints, with
\* their weight (the keys are in canonical order, so that no two keys
\* have the same endpoints)
EdgesOf(co, threshold) ==
    [e \in {{key[1], key[2]} : key \in EdgeKeys(co, threshold)} |->
        co[CHOOSE key \in EdgeKeys(co, threshold) : {key[1], key[2]} = e]]

\* list(nx.isolates(graph)): the nodes of degree zero
Isolated(nodes, edges) == {n \in nodes : \A e \in DOMAIN edges : n \notin e}

\* build_network(threshold)
BuildNetwork ==
    /\ d_idx = -1 \/ d_idx = Len(dialogues)
    /\ \E threshold \in 1..MaxThreshold :
          LET edges == EdgesOf(co_occurrence, threshold)
              nodes == AddedNodes \cup UNION (DOMAIN edges)
              kept  == nodes \ Isolated(nodes, edges)
          IN  graph' = [built     |-> TRUE,
                        threshold |-> threshold,
                        nodes     |-> kept,
                        node_type |-> [n \in kept |-> NodeType(n)],
                        edges     |-> edges]
    /\ UNCHANGED <<entities, themes, dialogues, co_occurrence, d_idx,
                   communities, net_metrics>>
    /\ UNCHANGED <<parserVars, mainVars, alignVars, motifVars, narrVars>>

(***************************************************************************)
(* SemanticNetwork.detect_communities and calculate_metrics                *)
(***************************************************************************)
\* detect_communities().  For a graph with nodes the last fallback stores
\* {n: 0 for n in graph.nodes()}; a graph of the model has at most three
\* nodes and none isolated, so it is connected, and for such a graph the
\* two modularity algorithms put all nodes in community 0 too
DetectCommunities ==
    /\ d_idx = -1 \/ d_idx = Len(dialogues)
    /\ communities' = IF ~graph.built \/ graph.nodes = {} THEN <<>>
                      ELSE [n \in graph.nodes |-> 0]
    /\ UNCHANGED <<entities, themes, dialogues, co_occurrence, d_idx, graph,
                   net_metrics>>
    /\ UNCHANGED <<parserVars, mainVars, alignVars, motifVars, narrVars>>

\* the dictionary of calculate_metrics() for a graph with nodes: its
\* counts of nodes, edges, communities and node types and the community
\* breakdown (the entries computed by the graph library from the graph
\* alone are left out).  self.node_types holds what NodeType gives
NetMetrics(g, comm) ==
    LET ids == {comm[n] : n \in DOMAIN comm}
    IN  [returned        |-> TRUE,
         num_nodes       |-> Cardinality(g.nodes),
         num_edges       |-> Cardinality(DOMAIN g.edges),
         num_communities |-> Cardinality(ids),
         entity_nodes    |-> Cardinality({n \in g.nodes : NodeType(n) = "entity"}),
         theme_nodes     |-> Cardinality({n \in g.nodes : NodeType(n) = "theme"}),
         has_sizes       |-> comm # <<>>,
         community_sizes |->
            [id \in ids |-> Cardinality({n \in DOMAIN comm : comm[n] = id})]]

\* calculate_metrics(): zeros for no graph or a graph without nodes
CalculateMetrics ==
    /\ d_idx = -1 \/ d_idx = Len(dialogues)
    /\ net_metrics' =
          IF ~graph.built \/ graph.nodes = {}
          THEN [returned |-> TRUE, num_nodes |-> 0, num_edges |-> 0,
                num_communities |-> 0]
          ELSE NetMetrics(graph, communities)
    /\ UNCHANGED <<entities, themes, dialogues, co_occurrence, d_idx, graph,
                   communities>>
    /\ UNCHANGED <<parserVars, mainVars, alignVars, motifVars, narrVars>>

\* the keyword strings and dialogue texts of the model
Keywords == { <<"a">>, <<"b">>, <<"a", "b">> }

Texts == { [has_text |-> TRUE, text |-> <<"a", "b">>],
           [has_text |-> TRUE, text |-> <<"b", "a">>],
           [has_text |-> TRUE, text |-> <<"b">>],
           [has_text |-> FALSE, text |-> <<>>] }

\* the theme keywords and dialogue texts of the community runs
CommunityThemes == { <<"b">>, <<"a", "b">> }

CommunityTexts == { [has_text |-> TRUE, text |-> <<"a", "b">>],
                    [has_text |-> TRUE, text |-> <<"b", "a">>] }

(***************************************************************************)
(* StructuralAlignment (src/src/experiment_1_alignment.py)                 *)
(***************************************************************************)
UpperCase == <<"A", "B", "C", "D", "E", "F", "G", "H", "I", "J", "K", "L", "M", "N", "O", "P", "Q", "R", "S", "T", "U", "V", "W", "X", "Y", "Z">>
LowerCase == <<"a", "b", "c", "d", "e", "f", "g", "h", "i", "j", "k", "l", "m", "n", "o", "p", "q", "r", "s", "t", "u", "v", "w", "x", "y", "z">>

IsUpper(c) == \E i \in 1..Len(UpperCase) : UpperCase[i] = c
IsLower(c) == \E i \in 1..Len(LowerCase) : LowerCase[i] = c

\* c.lower() and c.upper() for one character
LowerChar(c) ==
    IF IsUpper(c)
    THEN LowerCase[CHOOSE i \in 1..Len(UpperCase) : UpperCase[i] = c] ELSE c
UpperChar(c) ==
    IF IsLower(c)
    THEN UpperCase[CHOOSE i \in 1..Len(LowerCase) : LowerCase[i] = c] ELSE c

\* s.lower()
Lower(s) == [i \in 1..Len(s) |-> LowerChar(s[i])]

\* s.replace('_', ' ')
ReplaceUnderscore(s) == [i \in 1..Len(s) |-> IF s[i] = "_" THEN " " ELSE s[i]]

\* s.title(): a letter that follows a non-letter is upper-cased, any other
\* letter is lower-cased
Title(s) ==
    [i \in 1..Len(s) |->
        IF i = 1 \/ ~(IsUpper(s[i - 1]) \/ IsLower(s[i - 1]))
        THEN UpperChar(s[i]) ELSE LowerChar(s[i])]

\* s.split(c): the fields between the occurrences of character c
RECURSIVE SplitOn(_, _)
SplitOn(s, c) ==
    LET p == FindChar(s, c, 1)
    IN  IF p > Len(s) THEN <<s>>
        ELSE <<SubSeq(s, 1, p - 1)>> \o SplitOn(SubSeq(s, p + 1, Len(s)), c)

\* set(s.split()): the maximal runs of non-whitespace characters
Words(s) ==
    {SubSeq(s, i, j) : <<i, j>> \in
        {ij \in (1..Len(s)) \X (1..Len(s)) :
            /\ ij[1] <= ij[2]
            /\ \A k \in ij[1]..ij[2] : s[k] \notin Whitespace
            /\ ij[1] = 1 \/ s[ij[1] - 1] \in Whitespace
            /\ ij[2] = Len(s) \/ s[ij[2] + 1] \in Whitespace}}

\* overlap_words of _classify_match
overlap_words == { <<"k", "i", "l", "l">>, <<"t", "a", "n", "k">>, <<"w", "o", "l", "f">>, <<"w", "e", "r", "e", "w", "o", "l", "f">>, <<"v", "i", "s", "i", "t">>,
                   <<"m", "o", "t", "h", "e", "r">>, <<"g", "r", "a", "n", "d", "m", "o", "t", "h", "e", "r">>, <<"l", "e", "a", "v", "e">>, <<"r", "e", "t", "u", "r", "n">>,
                   <<"s", "o", "a", "p">>, <<"l", "e", "t", "t", "e", "r">>, <<"d", "e", "l", "i", "v", "e", "r">>, <<"p", "r", "o", "m", "i", "s", "e">>, <<"t", "r", "a", "i", "n">>,
                   <<"j", "o", "u", "r", "n", "e", "y">>, <<"d", "e", "l", "a", "y">> }

\* _classify_match without the lower-casing of the two descriptions
ClassifyMatchCaseSensitive(film_beat, game_beat) ==
    LET film_key == Words(film_beat.description) \cap overlap_words
        game_key == Words(game_beat.description) \cap overlap_words
    IN  IF film_key \cap game_key # {} THEN "Direct Transposition"
        ELSE "Structural Homology"

\* _classify_match(film_beat, game_beat)
ClassifyMatch(film_beat, game_beat) ==
    LET film_key == Words(Lower(film_beat.description)) \cap overlap_words
        game_key == Words(Lower(game_beat.description)) \cap overlap_words
    IN  IF film_key \cap game_key # {} THEN "Direct Transposition"
        ELSE "Structural Homology"

\* _timestamp_to_minutes raises ValueError: two or three fields, one of
\* which int() rejects
TimestampRaises(timestamp) ==
    LET parts == SplitOn(timestamp, ":")
    IN  /\ Len(parts) \in {2, 3}
        /\ \E i \in 1..Len(parts) : ~IsIntLiteral(Strip(parts[i]))

\* _timestamp_to_minutes(timestamp), in sixtieths of a minute (the float
\* h*60 + m + s/60 orders as the exact value as long as s < 60)
TimestampToMinutes(timestamp) ==
    LET parts == SplitOn(timestamp, ":")
    IN  IF Len(parts) = 3
        THEN (IntOf(Strip(parts[1])) * 60 + IntOf(Strip(parts[2]))) * 60
                + IntOf(Strip(parts[3]))
        ELSE IF Len(parts) = 2
        THEN IntOf(Strip(parts[1])) * 60 + IntOf(Strip(parts[2]))
        ELSE 0

\* the row appended for a matched film beat.  Game Location keeps the three
\* numbers that the code formats into one string; film_idx and game_idx
\* are the positions of the two beats in self.film_beats and
\* self.game_beats.
MatchedRow(film, game, fi, gi) ==
    [BeatType      |-> Title(ReplaceUnderscore(film[fi].type)),
     FilmTimestamp |-> film[fi].timestamp,
     FilmBeat      |-> film[fi].description,
     GameLocation  |-> [map_id   |-> game[gi].map_id,
                        event_id |-> game[gi].event_id,
                        line     |-> game[gi].line],
     GameBeat      |-> game[gi].description,
     MatchType     |-> ClassifyMatch(film[fi], game[gi]),
     Matched       |-> TRUE,
     film_idx      |-> fi,
     game_idx      |-> gi]

\* the row appended for a film beat without a game beat
UnmatchedRow(film, fi) ==
    [BeatType      |-> Title(ReplaceUnderscore(film[fi].type)),
     FilmTimestamp |-> film[fi].timestamp,
     FilmBeat      |-> film[fi].description,
     GameLocation  |-> [map_id |-> -1, event_id |-> -1, line |-> -1],
     GameBeat      |-> <<"(", "N", "o", " ", "m", "a", "t", "c", "h", ")">>,
     MatchType     |-> "Unmatched",
     Matched       |-> FALSE,
     film_idx      |-> fi,
     game_idx      |-> 0]

\* film_by_type[t] / game_by_type[t]: the positions of the beats of type t,
\* in list order
RECURSIVE IndicesOfType(_, _, _)
IndicesOfType(beat_list, t, from) ==
    IF from > Len(beat_list) THEN <<>>
    ELSE IF beat_list[from].type = t
         THEN <<from>> \o IndicesOfType(beat_list, t, from + 1)
         ELSE IndicesOfType(beat_list, t, from + 1)

\* film_by_type.keys(): the types of the film beats in order of first
\* appearance
RECURSIVE TypesInOrder(_, _)
TypesInOrder(beat_list, from) ==
    IF from > Len(beat_list) THEN <<>>
    ELSE IF \E j \in 1..(from - 1) : beat_list[j].type = beat_list[from].type
         THEN TypesInOrder(beat_list, from + 1)
         ELSE <<beat_list[from].type>> \o TypesInOrder(beat_list, from + 1)

\* the inner loop with the used game instance left in the list
RECURSIVE MatchInstancesReuse(_, _, _, _)
MatchInstancesReuse(film, game, film_instances, game_instances) ==
    IF film_instances = <<>> THEN <<>>
    ELSE IF game_instances # <<>>
         THEN <<MatchedRow(film, game, Head(film_instances),
                           Head(game_instances))>>
                \o MatchInstancesReuse(film, game, Tail(film_instances),
                                       game_instances)
         ELSE <<UnmatchedRow(film, Head(film_instances))>>
                \o MatchInstancesReuse(film, game, Tail(film_instances), <<>>)

\* the inner loop over the film instances of one type: each takes
\* game_instances[0], which is then removed
RECURSIVE MatchInstances(_, _, _, _)
MatchInstances(film, game, film_instances, game_instances) ==
    IF film_instances = <<>> THEN <<>>
    ELSE IF game_instances # <<>>
         THEN <<MatchedRow(film, game, Head(film_instances),
                           Head(game_instances))>>
                \o MatchInstances(film, game, Tail(film_instances),
                                  Tail(game_instances))
         ELSE <<UnmatchedRow(film, Head(film_instances))>>
                \o MatchInstances(film, game, Tail(film_instances), <<>>)

\* alignment_data after the outer loop over the beat types
RECURSIVE AlignmentData(_, _, _)
AlignmentData(film, game, types) ==
    IF types = <<>> THEN <<>>
    ELSE MatchInstances(film, game, IndicesOfType(film, Head(types), 1),
                        IndicesOfType(game, Head(types), 1))
           \o AlignmentData(film, game, Tail(types))

\* sort_values('_sort_key'): the default sort of pandas is not stable, so
\* any order of the rows with non-decreasing keys can result
SortedTables(rows) ==
    LET n == Len(rows)
    IN  {t \in {[i \in 1..n |-> rows[p[i]]] : p \in Permutations(1..n)} :
            \A i \in 1..(n - 1) :
               TimestampToMinutes(t[i].FilmTimestamp)
                  <= TimestampToMinutes(t[i + 1].FilmTimestamp)}

\* self.alignment_table is None
NoTable == [built |-> FALSE, has_columns |-> FALSE, rows |-> <<>>]

\* the outcomes of compute_alignment(): how the call ends and the value it
\* leaves in self.alignment_table.  The table is assigned before the sort
\* key is computed: with no row it has no column and indexing
\* 'Film Timestamp' raises KeyError; with a timestamp that int() rejects
\* the unsorted table stays.
ComputeOutcomes(film, game) ==
    LET rows == AlignmentData(film, game, TypesInOrder(film, 1))
    IN  IF rows = <<>>
        THEN {[status |-> "KeyError",
               table  |-> [built |-> TRUE, has_columns |-> FALSE,
                           rows |-> <<>>]]}
        ELSE IF \E i \in 1..Len(rows) : TimestampRaises(rows[i].FilmTimestamp)
        THEN {[status |-> "ValueError",
               table  |-> [built |-> TRUE, has_columns |-> TRUE,
                           rows |-> rows]]}
        ELSE {[status |-> "ok",
               table  |-> [built |-> TRUE, has_columns |-> TRUE, rows |-> t]] :
                 t \in SortedTables(rows)}

\* alignment_table['Matched'].sum()
MatchedSum(rows) == Cardinality({i \in 1..Len(rows) : rows[i].Matched})

\* the score as the share of the game beats
ScoreOfGameBeats(rows) ==
    IF Len(game_beats) > 0
    THEN [num |-> MatchedSum(rows) * 100, den |-> Len(game_beats)]
    ELSE [num |-> 0, den |-> 1]

\* (matched / total * 100) if total > 0 else 0.0, as the fraction num/den
Score(rows) ==
    IF Len(rows) > 0 THEN [num |-> MatchedSum(rows) * 100, den |-> Len(rows)]
    ELSE [num |-> 0, den |-> 1]

\* what a call of calculate_alignment_score works on: the table at hand, or
\* the outcome of compute_alignment() when the table is None
ScoreInputs ==
    IF alignment_table.built
    THEN {[status |-> "ok", table |-> alignment_table]}
    ELSE ComputeOutcomes(film_beats, game_beats)

\* compute_alignment() returns the table
ComputeAlignment ==
    /\ \E r \in ComputeOutcomes(film_beats, game_beats) :
          /\ r.status = "ok"
          /\ alignment_table' = r.table
    /\ last_call' = [op |-> "compute_alignment", status |-> "ok"]
    /\ UNCHANGED <<film_beats, game_beats, alignment_score, align_metrics>>
    /\ UNCHANGED <<parserVars, mainVars, netVars, motifVars, narrVars>>

\* compute_alignment() raises
ComputeAlignmentRaises ==
    /\ \E r \in ComputeOutcomes(film_beats, game_beats) :
          /\ r.status # "ok"
          /\ alignment_table' = r.table
          /\ last_call' = [op |-> "compute_alignment", status |-> r.status]
    /\ UNCHANGED <<film_beats, game_beats, alignment_score, align_metrics>>
    /\ UNCHANGED <<parserVars, mainVars, netVars, motifVars, narrVars>>

\* calculate_alignment_score() returns the score
CalculateAlignmentScore ==
    /\ \E r \in ScoreInputs :
          /\ r.status = "ok"
          /\ r.table.has_columns
          /\ alignment_table' = r.table
          /\ alignment_score' = Score(r.table.rows)
    /\ last_call' = [op |-> "calculate_alignment_score", status |-> "ok"]
    /\ UNCHANGED <<film_beats, game_beats, align_metrics>>
    /\ UNCHANGED <<parserVars, mainVars, netVars, motifVars, narrVars>>

\* calculate_alignment_score() raises: compute_alignment() raised, or the
\* table has no 'Matched' column
CalculateAlignmentScoreRaises ==
    /\ \E r \in ScoreInputs :
          /\ r.status # "ok" \/ ~r.table.has_columns
          /\ alignment_table' = r.table
          /\ last_call' = [op     |-> "calculate_alignment_score",
                           status |-> IF r.status # "ok" THEN r.status
                                      ELSE "KeyError"]
    /\ UNCHANGED <<film_beats, game_beats, alignment_score, align_metrics>>
    /\ UNCHANGED <<parserVars, mainVars, netVars, motifVars, narrVars>>

\* the subject beats left without a reference beat
UnmatchedOfGame(rows) == Len(game_beats) - MatchedSum(rows)

\* int((~df['Matched']).sum())
UnmatchedCount(rows) == Cardinality({i \in 1..Len(rows) : ~rows[i].Matched})

\* the dictionary built by get_metrics() from the table df.  The score is
\* round(score, 2) in hundredths of a percent: it is a multiple of
\* 100 / total, which has no tie at the third decimal for a total below 32
Metrics(rows) ==
    LET all     == 1..Len(rows)
        matched == {i \in all : rows[i].Matched}
        types   == {rows[i].BeatType : i \in all}
        score   == Score(rows)
    IN  [returned                |-> TRUE,
         total_film_beats        |-> Len(film_beats),
         total_game_beats        |-> Len(game_beats),
         matched_beats           |-> MatchedSum(rows),
         unmatched_beats         |-> UnmatchedCount(rows),
         alignment_score_percent |->
            (2 * 100 * score.num + score.den) \div (2 * score.den),
         direct_transpositions   |->
            Cardinality({i \in all : rows[i].MatchType = "Direct Transposition"}),
         structural_homologies   |->
            Cardinality({i \in all : rows[i].MatchType = "Structural Homology"}),
         beat_types_present      |->
            Cardinality({rows[i].BeatType : i \in matched}),
         total_beat_types        |-> Cardinality(types),
         beat_type_matches       |->
            [t \in types |->
                Cardinality({i \in matched : rows[i].BeatType = t})]]

\* get_metrics() returns the dictionary: it computes the table when there
\* is none and calls calculate_alignment_score(), which stores the score
GetMetrics ==
    /\ \E r \in ScoreInputs :
          /\ r.status = "ok"
          /\ r.table.has_columns
          /\ alignment_table' = r.table
          /\ alignment_score' = Score(r.table.rows)
          /\ align_metrics' = Metrics(r.table.rows)
    /\ last_call' = [op |-> "get_metrics", status |-> "ok"]
    /\ UNCHANGED <<film_beats, game_beats>>
    /\ UNCHANGED <<parserVars, mainVars, netVars, motifVars, narrVars>>

\* get_metrics() raises: compute_alignment() raised, or the table has no
\* 'Matched' column
GetMetricsRaises ==
    /\ \E r \in ScoreInputs :
          /\ r.status # "ok" \/ ~r.table.has_columns
          /\ alignment_table' = r.table
          /\ last_call' = [op     |-> "get_metrics",
                           status |-> IF r.status # "ok" THEN r.status
                                      ELSE "KeyError"]
    /\ UNCHANGED <<film_beats, game_beats, alignment_score, align_metrics>>
    /\ UNCHANGED <<parserVars, mainVars, netVars, motifVars, narrVars>>

(***************************************************************************)
(* Beat lists of the alignment                                             *)
(***************************************************************************)
BeatTypes == { <<"h", "e", "r", "o", "i", "c", "_", "a", "c", "t">>, <<"r", "e", "t", "u", "r", "n">> }

\* descriptions: the two of the documented example, one with capitals and
\* a double space, one without any overlap word
Descriptions == { <<"s", "o", "l", "d", "i", "e", "r", " ", "k", "i", "l", "l", "s", " ", "t", "a", "n", "k">>, <<"r", "e", "b", "e", "l", " ", "d", "e", "s", "t", "r", "o", "y", "s", " ", "t", "a", "n", "k">>,
                  <<"T", "a", "n", "k", " ", " ", "w", "o", "l", "f">>, <<"a", " ", "w", "o", "l", "f">> }

\* timestamps: H:M:S, M:S, one field, four fields, a field that is not a
\* number, an empty field
Timestamps == { <<"0", "0", ":", "1", "0", ":", "0", "0">>, <<"5", ":", "0", "0">>, <<"1", ":", "3", "0">>, <<"7">>, <<"0", ":", "0", ":", "0", ":", "1">>,
                <<"1", ":", "x", "x">>, <<"2", ":">> }

\* the timestamp of the film beat at position i of a matching list
StampAt(i) ==
    IF i % 3 = 1 THEN <<"0", "0", ":", "1", "0", ":", "0", "0">> ELSE IF i % 3 = 2 THEN <<"5", ":", "0", "0">>
    ELSE <<"1", ":", "3", "0">>

FilmBeat(t, ts, d) == [type |-> t, timestamp |-> ts, description |-> d]

GameBeat(t, d, i) ==
    [type |-> t, description |-> d, map_id |-> 5, event_id |-> 2, line |-> i]

\* film and game lists of any types, to exercise the matching
MatchingFilms ==
    {[i \in 1..Len(ts) |-> FilmBeat(ts[i], StampAt(i), <<"s", "o", "l", "d", "i", "e", "r", " ", "k", "i", "l", "l", "s", " ", "t", "a", "n", "k">>)] :
        ts \in SeqsUpTo(BeatTypes, MaxFilmBeats)}

MatchingGames ==
    {[i \in 1..Len(ts) |-> GameBeat(ts[i], <<"r", "e", "b", "e", "l", " ", "d", "e", "s", "t", "r", "o", "y", "s", " ", "t", "a", "n", "k">>, 10 * i)] :
        ts \in SeqsUpTo(BeatTypes, MaxGameBeats)}

\* one film beat and one game beat of the same type, of any descriptions
DescriptionFilms ==
    {<<FilmBeat(<<"h", "e", "r", "o", "i", "c", "_", "a", "c", "t">>, <<"0", "0", ":", "1", "0", ":", "0", "0">>, d)>> : d \in Descriptions}

DescriptionGames ==
    {<<GameBeat(<<"h", "e", "r", "o", "i", "c", "_", "a", "c", "t">>, d, 10)>> : d \in Descriptions}

\* film beats of one type with any timestamps
TimestampFilms ==
    {[i \in 1..Len(ts) |-> FilmBeat(<<"r", "e", "t", "u", "r", "n">>, ts[i], <<"a", " ", "w", "o", "l", "f">>)] :
        ts \in SeqsUpTo(Timestamps, MaxStampBeats)}

(***************************************************************************)
(* MotifEvolution.extract_instances (src/src/experiment_4_motif.py)        *)
(***************************************************************************)
\* dialogue.get('text', '') or ''
MotifText(dialogue) == IF dialogue.has_text THEN dialogue.text ELSE <<>>

\* scores: one entry per category, in the order of context_keywords
ScoresOf(config, text) ==
    [c \in 1..Len(config) |->
        [category |-> config[c].category,
         score    |-> Cardinality({k \in 1..Len(config[c].keywords) :
                                     Contains(config[c].keywords[k], text)})]]

\* sum(scores.values())
RECURSIVE TotalScore(_)
TotalScore(scores) ==
    IF scores = <<>> THEN 0 ELSE Head(scores).score + TotalScore(Tail(scores))

\* the category with the highest score, the last one of a tie
DominantLast(scores) ==
    IF TotalScore(scores) > 0
    THEN scores[CHOOSE c \in 1..Len(scores) :
                   /\ \A o \in 1..Len(scores) : scores[o].score <= scores[c].score
                   /\ \A o \in (c + 1)..Len(scores) :
                         scores[o].score < scores[c].score].category
    ELSE "neutral"

\* max(scores, key=scores.get) if total > 0 else 'neutral': max returns the
\* first key, in dictionary order, that carries the highest score
Dominant(scores) ==
    IF TotalScore(scores) > 0
    THEN scores[CHOOSE c \in 1..Len(scores) :
                   /\ \A o \in 1..Len(scores) : scores[o].score <= scores[c].score
                   /\ \A o \in 1..(c - 1) :
                         scores[o].score < scores[c].score].category
    ELSE "neutral"

\* _map_to_arc(map_id)
MapToArc(map_id) ==
    IF map_id <= 10 THEN "1.1 (Camp)"
    ELSE IF map_id <= 30 THEN "1.2 (Journey)"
    ELSE IF map_id <= 45 THEN "1.3 (Grandmother)"
    ELSE IF map_id <= 100 THEN "2.x (Cinderella)"
    ELSE "3.x (Snow White)"

\* the dictionary appended to self.instances for a dialogue with the motif
Instance(config, dialogue) ==
    LET text   == MotifText(dialogue)
        scores == ScoresOf(config, text)
    IN  [map_id              |-> dialogue.map_id,
         line                |-> dialogue.line,
         text                |-> SubSeq(text, 1, IF Len(text) < 150 THEN Len(text)
                                                ELSE 150),
         arc                 |-> MapToArc(dialogue.map_id),
         scores              |-> scores,
         dominant_context    |-> Dominant(scores),
         total_context_score |-> TotalScore(scores)]

\* self.instances = [] before the loop
ExtractBegin ==
    /\ m_idx = -1
    /\ instances' = <<>>
    /\ m_idx' = 0
    /\ UNCHANGED <<motif, context_keywords, motif_dialogues, evolution_df>>
    /\ UNCHANGED <<parserVars, mainVars, netVars, alignVars, narrVars>>

\* one iteration of the loop: a dialogue without the motif is skipped
ExtractSkip ==
    /\ m_idx >= 0
    /\ m_idx < Len(motif_dialogues)
    /\ ~Contains(motif, MotifText(motif_dialogues[m_idx + 1]))
    /\ m_idx' = m_idx + 1
    /\ UNCHANGED <<motif, context_keywords, motif_dialogues, instances,
                   evolution_df>>
    /\ UNCHANGED <<parserVars, mainVars, netVars, alignVars, narrVars>>

\* one iteration of the loop: a dialogue with the motif is scored and stored
ExtractInstance ==
    /\ m_idx >= 0
    /\ m_idx < Len(motif_dialogues)
    /\ Contains(motif, MotifText(motif_dialogues[m_idx + 1]))
    /\ instances' = Append(instances,
                           Instance(context_keywords, motif_dialogues[m_idx + 1]))
    /\ m_idx' = m_idx + 1
    /\ UNCHANGED <<motif, context_keywords, motif_dialogues, evolution_df>>
    /\ UNCHANGED <<parserVars, mainVars, netVars, alignVars, narrVars>>

\* the arc labels of _map_to_arc, in the order of sorted()
ArcLabels ==
    <<"1.1 (Camp)", "1.2 (Journey)", "1.3 (Grandmother)", "2.x (Cinderella)",
      "3.x (Snow White)">>

\* contexts = ['innocence', 'military', 'posthuman', 'neutral']
ColumnContexts == <<"innocence", "military", "posthuman", "neutral">>

\* arc_contexts[arc][context] after the counting loop, 0 for a missing key
ContextCount(insts, arc, context) ==
    Cardinality({i \in 1..Len(insts) :
                    insts[i].arc = arc /\ insts[i].dominant_context = context})

\* round(count / total * 100, 1) if total > 0 else 0, in tenths of a
\* percent (no tie at the second decimal for a total below 16)
Percent(count, total) ==
    IF total > 0 THEN (2 * 1000 * count + total) \div (2 * total) ELSE 0

\* context.title() for the context names of the model
ContextTitle(context) ==
    CASE context = "innocence" -> "Innocence"
      [] context = "military"  -> "Military"
      [] context = "posthuman" -> "Posthuman"
      [] context = "neutral"   -> "Neutral"
      [] context = "nostalgia" -> "Nostalgia"

\* the row of an arc.  total = sum(counts.values()): every instance of the
\* arc adds one to one of its counts.  The dominant context is
\* max(contexts, key=lambda c: counts.get(c, 0)): the first of the four
\* columns that carries the highest count
EvolutionRow(insts, arc) ==
    LET total    == Cardinality({i \in 1..Len(insts) : insts[i].arc = arc})
        count(c) == ContextCount(insts, arc, ColumnContexts[c])
        dominant == CHOOSE c \in 1..4 :
                       /\ \A o \in 1..4 : count(o) <= count(c)
                       /\ \A o \in 1..(c - 1) : count(o) < count(c)
    IN  [Arc             |-> arc,
         InnocencePct    |-> Percent(count(1), total),
         MilitaryPct     |-> Percent(count(2), total),
         PosthumanPct    |-> Percent(count(3), total),
         NeutralPct      |-> Percent(count(4), total),
         TotalInstances  |-> total,
         DominantContext |-> ContextTitle(ColumnContexts[dominant])]

\* evolution_data: a row for every arc that has an instance, in sorted order
RECURSIVE EvolutionData(_, _)
EvolutionData(insts, a) ==
    IF a > Len(ArcLabels) THEN <<>>
    ELSE IF \A i \in 1..Len(insts) : insts[i].arc # ArcLabels[a]
    THEN EvolutionData(insts, a + 1)
    ELSE <<EvolutionRow(insts, ArcLabels[a])>> \o EvolutionData(insts, a + 1)

\* analyze_evolution(), called before extract_instances or after it returned
AnalyzeEvolution ==
    /\ m_idx = -1 \/ m_idx = Len(motif_dialogues)
    /\ evolution_df' = [built |-> TRUE, rows |-> EvolutionData(instances, 1)]
    /\ UNCHANGED <<motif, context_keywords, motif_dialogues, instances, m_idx>>
    /\ UNCHANGED <<parserVars, mainVars, netVars, alignVars, narrVars>>

(***************************************************************************)
(* Motifs, context keywords and dialogues                                  *)
(***************************************************************************)
Motifs == { <<"I">>, <<"r", "e", "d">> }

ContextCategories == {"innocence", "military"}

MotifKeywords == { <<"h", "o", "m", "e">>, <<"w", "a", "r">> }

\* context_keywords: the categories of the configuration in any order,
\* each with any list of keywords; a dictionary has no category twice
CategoryConfigs ==
    {<<>>} \cup
    {<<[category |-> c1, keywords |-> k1], [category |-> c2, keywords |-> k2]>> :
        <<c1, c2, k1, k2>> \in
           {q \in ContextCategories \X ContextCategories
                    \X SeqsUpTo(MotifKeywords, MaxMotifKeywords)
                    \X SeqsUpTo(MotifKeywords, MaxMotifKeywords) :
               q[1] # q[2]}}

\* configurations with a category of their own next to a usual one
OwnCategoryConfigs ==
    {<<[category |-> "innocence", keywords |-> k1],
       [category |-> "nostalgia", keywords |-> k2]>> :
        <<k1, k2>> \in {<<>>, <<<<"h", "o", "m", "e">>>>} \X {<<<<"w", "a", "r">>>>, <<<<"h", "o", "m", "e">>, <<"w", "a", "r">>>>}}

ContextConfigs == CategoryConfigs \cup OwnCategoryConfigs

MotifTexts == { <<"I", " ", "m", "i", "s", "s", " ", "h", "o", "m", "e">>, <<"r", "e", "d", " ", "I", " ", "w", "a", "r", " ", "h", "o", "m", "e">>, <<"r", "e", "d">>, <<"w", "a", "r", " ", "I", " ", "w", "a", "r">> }

\* the map of the dialogue at position i: the dialogues move through the arcs
MotifMapAt(i) ==
    IF i = 1 THEN 10 ELSE IF i = 2 THEN 11 ELSE IF i = 3 THEN 46 ELSE 101

\* the dialogues returned by extract_all_dialogue, with or without text
MotifDialogues ==
    {[i \in 1..Len(ts) |->
        [has_text |-> ts[i] # <<"-">>, text |-> IF ts[i] # <<"-">> THEN ts[i] ELSE <<>>,
         map_id |-> MotifMapAt(i), line |-> i]] :
        ts \in SeqsUpTo(MotifTexts \cup {<<"-">>}, MaxMotifDialogues)}

(***************************************************************************)
(* NarrativeExtractionParser (src/src/parsers.py).  A character outside    *)
(* ASCII is written by its code point: "U+300C" and "U+300D" are the       *)
(* corner brackets of a quotation, "U+2014" and "U+2013" the em and en     *)
(* dash, "U+FF1A" the full-width colon.                                    *)
(***************************************************************************)
\* [:U+FF1A] of the regular expressions
Colons == {":", "U+FF1A"}

\* [U+2014 U+2013 -] of the speaker expression
Dashes == {"U+2014", "U+2013", "-"}

\* None and a present value of an optional field
None == [has |-> FALSE, val |-> <<>>]
Some(v) == [has |-> TRUE, val |-> v]

\* index of the first occurrence of p in s at or after position from, 0
\* when there is none
IndexOf(p, s, from) ==
    LET hits == {i \in from..(Len(s) - Len(p) + 1) :
                    SubSeq(s, i, i + Len(p) - 1) = p}
    IN  IF hits = {} THEN 0 ELSE CHOOSE i \in hits : \A j \in hits : i <= j

\* \d+ at position from: the index of the last digit of the run,
\* from - 1 when there is no digit
DigitRunEnd(s, from) ==
    LET stops == {k \in from..Len(s) : ~IsDigit(s[k])}
    IN  IF stops = {} THEN Len(s)
        ELSE (CHOOSE k \in stops : \A j \in stops : k <= j) - 1

\* \d+(\.\d+)* with n runs of digits at position from: the index of its
\* last digit, 0 when the text does not match
RECURSIVE DottedEnd(_, _, _)
DottedEnd(s, from, n) ==
    LET d == DigitRunEnd(s, from)
    IN  IF d < from THEN 0
        ELSE IF n = 1 THEN d
        ELSE IF d + 1 <= Len(s) /\ s[d + 1] = "."
             THEN DottedEnd(s, d + 2, n - 1)
             ELSE 0

\* the end of the id of a heading line: prefix, then n runs of digits
HeadingIdEnd(line, prefix, n) ==
    IF StartsWith(line, prefix) THEN DottedEnd(line, Len(prefix) + 1, n) ELSE 0

\* group(1) of a heading match
HeadingId(line, prefix, n) ==
    SubSeq(line, Len(prefix) + 1, HeadingIdEnd(line, prefix, n))

\* group(2) of a heading match, '' when absent: what follows the id, an
\* optional colon and any whitespace
HeadingName(line, prefix, n) ==
    LET e == HeadingIdEnd(line, prefix, n)
        c == IF e + 1 <= Len(line) /\ line[e + 1] \in Colons THEN e + 2
             ELSE e + 1
    IN  LStrip(SubSeq(line, c, Len(line)))

ChapterPrefix  == <<"#", "#", " ", "C", "H", "A", "P", "T", "E", "R", " ">>
ArcPrefix      == <<"#", "#", "#", " ", "A", "r", "c", " ">>
SequencePrefix == <<"#", "#", "#", "#", " ", "S", "e", "q", "u", "e", "n", "c", "e", " ">>

\* re.match(r'^## CHAPTER (\d+)[:U+FF1A]?\s*(.+)?$', line)
ChapterMatch(line) == HeadingIdEnd(line, ChapterPrefix, 1) > 0

\* re.match(r'^### Arc (\d+\.\d+)[:U+FF1A]?\s*(.+)?$', line)
ArcMatch(line) == HeadingIdEnd(line, ArcPrefix, 2) > 0

\* re.match(r'^#### Sequence (\d+\.\d+\.\d+)[:U+FF1A]?\s*(.+)?$', line)
SeqMatch(line) == HeadingIdEnd(line, SequencePrefix, 3) > 0

\* re.search(r'\*\*Location:\*\*\s*(.+)', line) matches: the marker is
\* followed by at least one character
LocationMarker == <<"*", "*", "L", "o", "c", "a", "t", "i", "o", "n", ":", "*", "*">>

LocationMatch(line) ==
    LET p == IndexOf(LocationMarker, line, 1)
    IN  p > 0 /\ p + Len(LocationMarker) <= Len(line)

\* group(1) of the Location match: the rest of the line after the
\* whitespace, or the last whitespace character when nothing else follows
LocationText(line) ==
    LET p    == IndexOf(LocationMarker, line, 1)
        rest == SubSeq(line, p + Len(LocationMarker), Len(line))
    IN  IF LStrip(rest) # <<>> THEN LStrip(rest) ELSE <<rest[Len(rest)]>>

\* the positions where word is followed by a digit
NumberedAt(word, s) ==
    {p \in 1..(Len(s) - Len(word)) :
        /\ SubSeq(s, p, p + Len(word) - 1) = word
        /\ IsDigit(s[p + Len(word)])}

\* int(group(1)) of re.search(word + r'(\d+)', s), for a text that matches
NumberAfter(word, s) ==
    LET p == CHOOSE q \in NumberedAt(word, s) :
                \A r \in NumberedAt(word, s) : q <= r
    IN  DigitsVal(SubSeq(s, p + Len(word), DigitRunEnd(s, p + Len(word))))

\* result after the Location part of one iteration of the sub-scan
WithLocation(result, line) ==
    IF ~LocationMatch(line) THEN result
    ELSE LET loc == LocationText(line)
         IN  [result EXCEPT
                 !.location = Some(loc),
                 !.map_id   = IF NumberedAt(<<"M", "a", "p", " ">>, loc) # {}
                              THEN Some(NumberAfter(<<"M", "a", "p", " ">>, loc)) ELSE @,
                 !.event_id = IF NumberedAt(<<"E", "v", "e", "n", "t", " ">>, loc) # {}
                              THEN Some(NumberAfter(<<"E", "v", "e", "n", "t", " ">>, loc)) ELSE @]

SourceMarker == <<"*", "*", "S", "o", "u", "r", "c", "e", ":", "*", "*">>

\* the index of the first digit of group(1) when
\* r'\*\*Source:\*\*\s*Lines?\s*(\d+)(?:-(\d+))?' matches with the marker
\* at position p, 0 when it does not
SourceNumberAt(line, p) ==
    LET a    == p + Len(SourceMarker)
        ws1  == {k \in a..Len(line) : line[k] \notin Whitespace}
        b    == IF ws1 = {} THEN Len(line) + 1
                ELSE CHOOSE k \in ws1 : \A j \in ws1 : k <= j
        word == <<"L", "i", "n", "e">>
        c    == b + Len(word)
        d    == IF c <= Len(line) /\ line[c] = "s" THEN c + 1 ELSE c
        ws2  == {k \in d..Len(line) : line[k] \notin Whitespace}
        e    == IF ws2 = {} THEN Len(line) + 1
                ELSE CHOOSE k \in ws2 : \A j \in ws2 : k <= j
    IN  IF /\ a - 1 <= Len(line)
           /\ SubSeq(line, p, a - 1) = SourceMarker
           /\ c - 1 <= Len(line)
           /\ SubSeq(line, b, c - 1) = word
           /\ e <= Len(line)
           /\ IsDigit(line[e])
        THEN e ELSE 0

\* the positions of the marker where the Source expression matches
SourceAt(line) == {p \in 1..Len(line) : SourceNumberAt(line, p) > 0}

\* (start, end) of the Source match: Lines a-b gives (a, b), Lines n gives
\* (n, n)
SourceLines(line) ==
    LET p  == CHOOSE q \in SourceAt(line) : \A r \in SourceAt(line) : q <= r
        e  == SourceNumberAt(line, p)
        e1 == DigitRunEnd(line, e)
        e2 == DigitRunEnd(line, e1 + 2)
        start == DigitsVal(SubSeq(line, e, e1))
    IN  IF e1 + 2 <= Len(line) /\ line[e1 + 1] = "-" /\ e2 >= e1 + 2
        THEN <<start, DigitsVal(SubSeq(line, e1 + 2, e2))>>
        ELSE <<start, start>>

\* result after the Source part of one iteration of the sub-scan
WithSource(result, line) ==
    IF SourceAt(line) = {} THEN result
    ELSE [result EXCEPT !.source_lines = Some(SourceLines(line))]

\* the inner loop of the Summary section: the first line at or after pos
\* that starts with '#', Len(lines) + 1 when there is none
SummaryEnd(lines, pos) ==
    LET stops == {k \in pos..Len(lines) : StartsWith(lines[k], <<"#">>)}
    IN  IF stops = {} THEN Len(lines) + 1
        ELSE CHOOSE k \in stops : \A j \in stops : k <= j

\* ' '.join(summary_lines) of the stripped non-empty lines from..to
RECURSIVE JoinStripped(_, _, _)
JoinStripped(lines, from, to) ==
    IF from > to THEN <<>>
    ELSE LET rest == JoinStripped(lines, from + 1, to)
             this == Strip(lines[from])
         IN  IF this = <<>> THEN rest
             ELSE IF rest = <<>> THEN this
             ELSE this \o <<" ">> \o rest

\* the result dictionary _parse_sequence_block starts from
EmptyBlock ==
    [location |-> None, source_lines |-> None, summary |-> <<>>,
     map_id |-> None, event_id |-> None]

\* the while loop of _parse_sequence_block from line pos (1-based) on: it
\* ends at the end of the input or at a line that starts with '###'
RECURSIVE BlockScan(_, _, _)
BlockScan(lines, pos, result) ==
    IF \/ pos > Len(lines)
       \/ StartsWith(lines[pos], <<"#", "#", "#", "#">>)
       \/ StartsWith(lines[pos], <<"#", "#", "#">>)
    THEN result
    ELSE LET line == lines[pos]
             r    == WithSource(WithLocation(result, line), line)
         IN  IF Strip(line) = <<"#", "#", "#", "#", "#", " ", "S", "u", "m", "m", "a", "r", "y">>
             THEN LET end == SummaryEnd(lines, pos + 1)
                  IN  BlockScan(lines, end,
                                [r EXCEPT !.summary =
                                    JoinStripped(lines, pos + 1, end - 1)])
             ELSE BlockScan(lines, pos + 1, r)

\* the line (1-based) at which the while loop of _parse_sequence_block
\* ends when it starts at line pos: the lines from pos up to it, that line
\* excluded, are the ones the sub-scan reads
RECURSIVE BlockScanEnd(_, _)
BlockScanEnd(lines, pos) ==
    IF \/ pos > Len(lines)
       \/ StartsWith(lines[pos], <<"#", "#", "#", "#">>)
       \/ StartsWith(lines[pos], <<"#", "#", "#">>)
    THEN pos
    ELSE IF Strip(lines[pos]) = <<"#", "#", "#", "#", "#", " ", "S", "u", "m", "m", "a", "r", "y">>
         THEN BlockScanEnd(lines, SummaryEnd(lines, pos + 1))
         ELSE BlockScanEnd(lines, pos + 1)

\* _parse_sequence_block(lines, start_idx) for the heading at line pos
ParseSequenceBlock(lines, pos) == BlockScan(lines, pos + 1, EmptyBlock)

\* re.search(r'U+300C(.+?)U+300D', line): the positions of an opening
\* bracket that has a closing bracket at least two characters later
QuoteAt(line) ==
    {p \in 1..Len(line) :
        /\ line[p] = "U+300C"
        /\ \E q \in (p + 2)..Len(line) : line[q] = "U+300D"}

\* group(1) of the quotation match: from the first such opening bracket to
\* the nearest closing bracket that leaves a character between
DialogueText(line) ==
    LET p == CHOOSE q \in QuoteAt(line) : \A r \in QuoteAt(line) : q <= r
    IN  SubSeq(line, p + 1, FindChar(line, "U+300D", p + 2) - 1)

\* the speaker taken from the next line: re.search(r'[dash]\s*(.+)', ...)
\* matches at the first dash that has a character after it
NextLineSpeaks(next_line) ==
    \E p \in 1..(Len(next_line) - 1) : next_line[p] \in Dashes

NextLineSpeaker(next_line) ==
    LET p == CHOOSE q \in 1..Len(next_line) :
                /\ next_line[q] \in Dashes
                /\ \A r \in 1..(q - 1) : next_line[r] \notin Dashes
    IN  Strip(SubSeq(next_line, p + 1, Len(next_line)))

\* re.match(r'^>\s*(.+?)[:U+FF1A]\s*$', line) matches: the line starts
\* with '>' and its last character that is not whitespace is a colon with
\* a character between the two
SameLineSpeaks(line) ==
    /\ Len(line) >= 1
    /\ line[1] = ">"
    /\ \E e \in 3..Len(line) :
          /\ line[e] \in Colons
          /\ \A k \in (e + 1)..Len(line) : line[k] \in Whitespace

SameLineSpeaker(line) ==
    LET e == CHOOSE k \in 3..Len(line) :
                /\ line[k] \in Colons
                /\ \A j \in (k + 1)..Len(line) : line[j] \in Whitespace
    IN  Strip(SubSeq(line, 2, e - 1))

\* _extract_speaker(lines, current_idx) for the line at pos (1-based)
ExtractSpeaker(lines, pos) ==
    IF pos + 1 <= Len(lines) /\ NextLineSpeaks(lines[pos + 1])
    THEN Some(NextLineSpeaker(lines[pos + 1]))
    ELSE IF SameLineSpeaks(lines[pos]) THEN Some(SameLineSpeaker(lines[pos]))
    ELSE None

\* the index of the first '*' of the opening '**' when
\* re.match(r'^\d+\.\s*\*\*(.+?)\*\*', line) can start, 0 when it cannot
BeatOpen(line) ==
    LET d  == DigitRunEnd(line, 1)
        ws == {k \in (d + 2)..Len(line) : line[k] \notin Whitespace}
        a  == IF ws = {} THEN Len(line) + 1
              ELSE CHOOSE k \in ws : \A j \in ws : k <= j
    IN  IF /\ d >= 1
           /\ d + 1 <= Len(line)
           /\ line[d + 1] = "."
           /\ a + 1 <= Len(line)
           /\ line[a] = "*"
           /\ line[a + 1] = "*"
        THEN a ELSE 0

\* the beat expression matches: a closing '**' follows the opening one
\* with a character between
BeatMatch(line) ==
    /\ BeatOpen(line) > 0
    /\ IndexOf(<<"*", "*">>, line, BeatOpen(line) + 3) > 0

\* group(1) of the beat match
BeatDescription(line) ==
    SubSeq(line, BeatOpen(line) + 2,
           IndexOf(<<"*", "*">>, line, BeatOpen(line) + 3) - 1)

NarrScanning == nstate = "scanning" /\ n_i < Len(n_lines)

\* the line at the cursor (lines[i], i counted from 0)
NarrLine == n_lines[n_i + 1]

\* parse_file resets the object, reads the file and splits it into lines
NarrParseBegin ==
    /\ nstate = "idle"
    /\ n_readable
    /\ arcs' = <<>>
    /\ characters' = {}
    /\ n_dialogues' = <<>>
    /\ beats' = <<>>
    /\ current_chapter' = None
    /\ current_arc' = None
    /\ current_sequence' = None
    /\ n_i' = 0
    /\ nstate' = "scanning"
    /\ UNCHANGED <<n_lines, n_readable>>
    /\ UNCHANGED <<parserVars, mainVars, netVars, alignVars, motifVars>>

\* open() raises for a file that cannot be read, after the reset
NarrOpenRaises ==
    /\ nstate = "idle"
    /\ ~n_readable
    /\ arcs' = <<>>
    /\ characters' = {}
    /\ n_dialogues' = <<>>
    /\ beats' = <<>>
    /\ nstate' = "raised"
    /\ UNCHANGED <<n_lines, n_readable, n_i, current_chapter, current_arc,
                   current_sequence>>
    /\ UNCHANGED <<parserVars, mainVars, netVars, alignVars, motifVars>>

\* a chapter heading
NarrChapter ==
    /\ NarrScanning
    /\ ChapterMatch(NarrLine)
    /\ current_chapter' = Some(HeadingId(NarrLine, ChapterPrefix, 1))
    /\ n_i' = n_i + 1
    /\ UNCHANGED <<n_lines, n_readable, nstate, current_arc, current_sequence,
                   arcs, characters, n_dialogues, beats>>
    /\ UNCHANGED <<parserVars, mainVars, netVars, alignVars, motifVars>>

\* an arc heading
NarrArc ==
    /\ NarrScanning
    /\ ~ChapterMatch(NarrLine)
    /\ ArcMatch(NarrLine)
    /\ current_arc' = Some(HeadingId(NarrLine, ArcPrefix, 2))
    /\ arcs' = Append(arcs, [chapter   |-> current_chapter,
                             arc_id    |-> HeadingId(NarrLine, ArcPrefix, 2),
                             name      |-> HeadingName(NarrLine, ArcPrefix, 2),
                             sequences |-> <<>>])
    /\ n_i' = n_i + 1
    /\ UNCHANGED <<n_lines, n_readable, nstate, current_chapter,
                   current_sequence, characters, n_dialogues, beats>>
    /\ UNCHANGED <<parserVars, mainVars, netVars, alignVars, motifVars>>

\* the sequence record appended to the last arc
SequenceRecord(lines, pos) ==
    LET data == ParseSequenceBlock(lines, pos)
    IN  [sequence_id  |-> HeadingId(lines[pos], SequencePrefix, 3),
         name         |-> HeadingName(lines[pos], SequencePrefix, 3),
         location     |-> data.location,
         source_lines |-> data.source_lines,
         summary      |-> data.summary,
         map_id       |-> data.map_id,
         event_id     |-> data.event_id]

\* the cursor moved to where the sub-scan of the block ended
CursorPastBlock(lines, i) == BlockScanEnd(lines, i + 2) - 1

\* i += 1 after a sequence heading: the sub-scan works on its own index
\* and the outer cursor moves to the line after the heading
CursorAfterHeading(lines, i) == i + 1

\* the sequence stored under an arc made up for it when there is none
StoreSequenceNewArc(arc_list, chapter, record) ==
    IF arc_list # <<>>
    THEN [arc_list EXCEPT ![Len(arc_list)].sequences = Append(@, record)]
    ELSE <<[chapter |-> chapter, arc_id |-> <<>>, name |-> <<>>,
            sequences |-> <<record>>]>>

\* if self.arcs: self.arcs[-1]['sequences'].append(...): without an arc
\* the sequence record is dropped
StoreSequence(arc_list, chapter, record) ==
    IF arc_list # <<>>
    THEN [arc_list EXCEPT ![Len(arc_list)].sequences = Append(@, record)]
    ELSE arc_list

\* a sequence heading: the block is scanned and the record is stored when
\* an arc exists; the cursor moves to the line after the heading
NarrSequence ==
    /\ NarrScanning
    /\ ~ChapterMatch(NarrLine)
    /\ ~ArcMatch(NarrLine)
    /\ SeqMatch(NarrLine)
    /\ current_sequence' = Some(HeadingId(NarrLine, SequencePrefix, 3))
    /\ arcs' = StoreSequence(arcs, current_chapter,
                             SequenceRecord(n_lines, n_i + 1))
    /\ n_i' = CursorAfterHeading(n_lines, n_i)
    /\ UNCHANGED <<n_lines, n_readable, nstate, current_chapter, current_arc,
                   characters, n_dialogues, beats>>
    /\ UNCHANGED <<parserVars, mainVars, netVars, alignVars, motifVars>>

\* any other line: a quotation gives a dialogue, a numbered bold item a
\* beat, and one line can give both
NarrContent ==
    /\ NarrScanning
    /\ ~ChapterMatch(NarrLine)
    /\ ~ArcMatch(NarrLine)
    /\ ~SeqMatch(NarrLine)
    /\ LET speaker == ExtractSpeaker(n_lines, n_i + 1)
       IN  IF QuoteAt(NarrLine) # {}
           THEN /\ n_dialogues' =
                      Append(n_dialogues,
                             [chapter  |-> current_chapter,
                              arc      |-> current_arc,
                              sequence |-> current_sequence,
                              text     |-> DialogueText(NarrLine),
                              speaker  |-> speaker,
                              line_num |-> n_i + 1])
                /\ characters' = IF speaker.has /\ speaker.val # <<>>
                                 THEN characters \cup {speaker.val}
                                 ELSE characters
           ELSE UNCHANGED <<n_dialogues, characters>>
    /\ beats' = IF BeatMatch(NarrLine)
                THEN Append(beats, [chapter     |-> current_chapter,
                                    arc         |-> current_arc,
                                    sequence    |-> current_sequence,
                                    description |-> BeatDescription(NarrLine),
                                    line_num    |-> n_i + 1])
                ELSE beats
    /\ n_i' = n_i + 1
    /\ UNCHANGED <<n_lines, n_readable, nstate, current_chapter, current_arc,
                   current_sequence, arcs>>
    /\ UNCHANGED <<parserVars, mainVars, netVars, alignVars, motifVars>>

\* the end of the input: parse_file returns self.beats
NarrReturn ==
    /\ nstate = "scanning"
    /\ n_i = Len(n_lines)
    /\ nstate' = "returned"
    /\ UNCHANGED <<n_lines, n_readable, n_i, current_chapter, current_arc,
                   current_sequence, arcs, characters, n_dialogues, beats>>
    /\ UNCHANGED <<parserVars, mainVars, netVars, alignVars, motifVars>>

(***************************************************************************)
(* Outlines given to NarrativeExtractionParser.parse_file                  *)
(***************************************************************************)
NlChapter  == <<"#", "#", " ", "C", "H", "A", "P", "T", "E", "R", " ", "1", ":", " ", "R", "e", "d">>
NlArc      == <<"#", "#", "#", " ", "A", "r", "c", " ", "1", ".", "1", "U+FF1A", "C", "a", "m", "p">>
NlSequence == <<"#", "#", "#", "#", " ", "S", "e", "q", "u", "e", "n", "c", "e", " ", "1", ".", "1", ".", "1", ":", " ", "W", "a", "k", "e">>
NlLocation == <<"*", "*", "L", "o", "c", "a", "t", "i", "o", "n", ":", "*", "*", " ", "M", "a", "p", " ", "0", "0", "1", ":", " ", "C", "a", "m", "p", ",", " ", "E", "v", "e", "n", "t", " ", "0", "0", "4">>
NlSource   == <<"*", "*", "S", "o", "u", "r", "c", "e", ":", "*", "*", " ", "L", "i", "n", "e", "s", " ", "1", "4", "3", "-", "1", "5", "8">>
NlSourceOne == <<"-", " ", "*", "*", "S", "o", "u", "r", "c", "e", ":", "*", "*", " ", "L", "i", "n", "e", " ", "7">>
NlSummary  == <<"#", "#", "#", "#", "#", " ", "S", "u", "m", "m", "a", "r", "y">>
NlIndentedSummary == <<" ", "#", "#", "#", "#", "#", " ", "S", "u", "m", "m", "a", "r", "y">>
NlProse    == <<" ", "S", "h", "e", " ", "w", "a", "k", "e", "s", ".", " ">>
NlBeat     == <<"1", ".", " ", "*", "*", "W", "a", "k", "e", "s", " ", "u", "p", "*", "*">>
NlQuote    == <<">", " ", "U+300C", "h", "i", "U+300D">>
NlQuoteBy  == <<">", " ", "R", "e", "d", ":", " ", "U+300C", "h", "i", "U+300D", "U+FF1A">>
NlDashName == <<"U+2014", " ", "R", "e", "d">>
NlQuotedBeat == <<"2", ".", "*", "*", "S", "a", "y", "s", " ", "U+300C", "g", "o", "U+300D", "*", "*", " ", "n", "o", "w">>
NlQuoteLead == <<">", " ", "R", "e", "d", ":", " ", "U+300C", "h", "i", "U+300D">>
NlChapter2  == <<"#", "#", " ", "C", "H", "A", "P", "T", "E", "R", " ", "2", ":", " ", "A", "s", "h">>
NlArc2      == <<"#", "#", "#", " ", "A", "r", "c", " ", "1", ".", "2", ":", " ", "R", "o", "a", "d">>

\* outlines of headings at any depth and in any order, with beats and
\* dialogues between them
OutlineLines == {NlChapter, NlArc, NlSequence, NlBeat, NlQuote, NlQuotedBeat}

\* the lines of a sequence block
BlockLines == {NlLocation, NlSource, NlSourceOne, NlSummary,
               NlIndentedSummary, NlProse, NlChapter, NlBeat}

\* dialogue lines and the lines that can follow them
SpeakerLines == {NlQuote, NlQuoteBy, NlQuoteLead, NlDashName, NlSource,
                 NlSourceOne, NlProse, <<>>}

\* what can follow the first sequence of a consistent outline
ContextLines == {NlArc2, NlChapter2, NlBeat, NlQuote}

NonEmptySeqs(S, n) == UNION {[1..k -> S] : k \in 1..n}

\* content.split('\n') has at least one line
OutlineFiles == NonEmptySeqs(OutlineLines, MaxOutlineLines)

BlockFiles ==
    {<<NlArc, NlSequence>> \o b : b \in SeqsUpTo(BlockLines, MaxBlockLines)}

SpeakerFiles == NonEmptySeqs(SpeakerLines, MaxSpeakerLines)

\* a chapter, its first arc and that arc's first sequence, then new arcs
\* and chapters with beats and dialogues
ContextFiles ==
    {<<NlChapter, NlArc, NlSequence>> \o c :
        c \in SeqsUpTo(ContextLines, MaxContextLines)}

(***************************************************************************)
(* Components that a specification does not run                            *)
(***************************************************************************)
ParserUnused ==
    /\ file = <<>>
    /\ maps = <<>>
    /\ current_map = 0
    /\ current_event = NoEvent
    /\ line_num = 0
    /\ pstate = "unused"
    /\ returned = <<>>
    /\ density_df = <<>>
    /\ counted = FALSE

MainUnused ==
    /\ files = <<>>
    /\ pc = "unused"
    /\ results = <<>>
    /\ attempted = <<>>
    /\ outcome = <<>>
    /\ summary = NoSummary

NetUnused ==
    /\ entities = <<>>
    /\ themes = <<>>
    /\ dialogues = <<>>
    /\ co_occurrence = <<>>
    /\ d_idx = -1
    /\ graph = NoGraph
    /\ communities = <<>>
    /\ net_metrics = [returned |-> FALSE]

AlignUnused ==
    /\ film_beats = <<>>
    /\ game_beats = <<>>
    /\ alignment_table = NoTable
    /\ alignment_score = [num |-> 0, den |-> 1]
    /\ last_call = [op |-> "unused", status |-> "ok"]
    /\ align_metrics = [returned |-> FALSE]

MotifUnused ==
    /\ motif = <<>>
    /\ context_keywords = <<>>
    /\ motif_dialogues = <<>>
    /\ instances = <<>>
    /\ m_idx = -1
    /\ evolution_df = [built |-> FALSE, rows |-> <<>>]

NarrUnused ==
    /\ n_lines = <<>>
    /\ n_readable = TRUE
    /\ n_i = 0
    /\ current_chapter = None
    /\ current_arc = None
    /\ current_sequence = None
    /\ arcs = <<>>
    /\ characters = {}
    /\ n_dialogues = <<>>
    /\ beats = <<>>
    /\ nstate = "unused"

(***************************************************************************)
(* Specification of the parser: EventDumpParser() on any input file, then  *)
(* parse_file, count_commands_by_map and further parse_file calls          *)
(***************************************************************************)
Init ==
    /\ file \in GenFiles \cup HeaderFiles \cup DensityFiles \cup CatFiles
                \cup ContFiles
    /\ maps = <<>>
    /\ current_map = 0
    /\ current_event = NoEvent
    /\ line_num = 0
    /\ pstate = "idle"
    /\ returned = <<>>
    /\ density_df = <<>>
    /\ counted = FALSE
    /\ MainUnused
    /\ NetUnused
    /\ AlignUnused
    /\ MotifUnused
    /\ NarrUnused

Next ==
    \/ NewParser
    \/ ParseFileBegin
    \/ MapHeader
    \/ MapHeaderBadId
    \/ MapName
    \/ EventHeader
    \/ EventHeaderBadId
    \/ EventName
    \/ CommandLine
    \/ ContinuationLine
    \/ IgnoredLine
    \/ ParseFileReturn
    \/ CountCommandsByMap

Spec == Init /\ [][Next]_vars

(***************************************************************************)
(* Specification of a run of main, for any status of the data files        *)
(***************************************************************************)
MainInit ==
    /\ files \in [FileNames -> {"ok", "missing", "unreadable"}]
    /\ pc = "start"
    /\ results = <<>>
    /\ attempted = <<>>
    /\ outcome = <<>>
    /\ summary = NoSummary
    /\ ParserUnused
    /\ NetUnused
    /\ AlignUnused
    /\ MotifUnused
    /\ NarrUnused

MainNext ==
    \/ PrintHeader
    \/ EnsureDirectories
    \/ EnsureDirectoriesRaises
    \/ VerifyDataFiles
    \/ VerifyDataFilesExit
    \/ \E k \in {"exp1", "exp2", "exp3", "exp4"} : RunExperiment(k)
    \/ \E k \in {"exp1", "exp2", "exp3", "exp4"} : RunExperimentRaises(k)
    \/ PrintFooter

MainSpec == MainInit /\ [][MainNext]_vars

\* main is one sequential thread: a statement that can run does run
MainLiveSpec == MainInit /\ [][MainNext]_vars /\ WF_vars(MainNext)

(***************************************************************************)
(* Specification of process_dialogues, for any keyword lists and dialogues *)
(***************************************************************************)
NetInit ==
    /\ entities \in SeqsUpTo(Keywords, MaxKeywords)
    /\ themes \in SeqsUpTo(Keywords, MaxKeywords)
    /\ dialogues \in SeqsUpTo(Texts, MaxDialogues)
    /\ co_occurrence = <<>>
    /\ d_idx = -1
    /\ graph = NoGraph
    /\ communities = <<>>
    /\ net_metrics = [returned |-> FALSE]
    /\ ParserUnused
    /\ MainUnused
    /\ AlignUnused
    /\ MotifUnused
    /\ NarrUnused

NetNext ==
    \/ ProcessBegin
    \/ ProcessDialogue
    \/ BuildNetwork

NetSpec == NetInit /\ [][NetNext]_vars

(***************************************************************************)
(* Specification of the communities of SemanticNetwork: process_dialogues, *)
(* then build_network, detect_communities and calculate_metrics in any     *)
(* order and any number of times                                           *)
(***************************************************************************)
CommunityInit ==
    /\ entities \in SeqsUpTo(Keywords, MaxCommunityEntities)
    /\ themes \in SeqsUpTo(CommunityThemes, MaxCommunityThemes)
    /\ dialogues \in SeqsUpTo(CommunityTexts, MaxCommunityDialogues)
    /\ co_occurrence = <<>>
    /\ d_idx = -1
    /\ graph = NoGraph
    /\ communities = <<>>
    /\ net_metrics = [returned |-> FALSE]
    /\ ParserUnused
    /\ MainUnused
    /\ AlignUnused
    /\ MotifUnused
    /\ NarrUnused

CommunityNext ==
    \/ ProcessBegin
    \/ ProcessDialogue
    \/ BuildNetwork
    \/ DetectCommunities
    \/ CalculateMetrics

CommunitySpec == CommunityInit /\ [][CommunityNext]_vars

(***************************************************************************)
(* Specification of StructuralAlignment: the object after load_data, for   *)
(* any beat lists, then compute_alignment and calculate_alignment_score    *)
(***************************************************************************)
AlignInit ==
    /\ \/ film_beats \in MatchingFilms /\ game_beats \in MatchingGames
       \/ film_beats \in DescriptionFilms /\ game_beats \in DescriptionGames
       \/ film_beats \in TimestampFilms /\ game_beats = <<>>
    /\ alignment_table = NoTable
    /\ alignment_score = [num |-> 0, den |-> 1]
    /\ last_call = [op |-> "load_data", status |-> "ok"]
    /\ align_metrics = [returned |-> FALSE]
    /\ ParserUnused
    /\ MainUnused
    /\ NetUnused
    /\ MotifUnused
    /\ NarrUnused

AlignNext ==
    \/ ComputeAlignment
    \/ ComputeAlignmentRaises
    \/ CalculateAlignmentScore
    \/ CalculateAlignmentScoreRaises
    \/ GetMetrics
    \/ GetMetricsRaises

AlignSpec == AlignInit /\ [][AlignNext]_vars

(***************************************************************************)
(* Specification of MotifEvolution: any motif, configuration and           *)
(* dialogues, then extract_instances                                       *)
(***************************************************************************)
MotifInit ==
    /\ motif \in Motifs
    /\ context_keywords \in ContextConfigs
    /\ motif_dialogues \in MotifDialogues
    /\ instances = <<>>
    /\ m_idx = -1
    /\ evolution_df = [built |-> FALSE, rows |-> <<>>]
    /\ ParserUnused
    /\ MainUnused
    /\ NetUnused
    /\ AlignUnused
    /\ NarrUnused

MotifNext ==
    \/ ExtractBegin
    \/ ExtractSkip
    \/ ExtractInstance
    \/ AnalyzeEvolution

MotifSpec == MotifInit /\ [][MotifNext]_vars

(***************************************************************************)
(* Specification of NarrativeExtractionParser: a new parser and a file,    *)
(* readable or not, then parse_file                                        *)
(***************************************************************************)
NarrInit ==
    /\ \/ n_lines \in OutlineFiles
       \/ n_lines \in BlockFiles
       \/ n_lines \in SpeakerFiles
       \/ n_lines \in ContextFiles
    /\ n_readable \in BOOLEAN
    /\ n_i = 0
    /\ current_chapter = None
    /\ current_arc = None
    /\ current_sequence = None
    /\ arcs = <<>>
    /\ characters = {}
    /\ n_dialogues = <<>>
    /\ beats = <<>>
    /\ nstate = "idle"
    /\ ParserUnused
    /\ MainUnused
    /\ NetUnused
    /\ AlignUnused
    /\ MotifUnused

NarrNext ==
    \/ NarrParseBegin
    \/ NarrOpenRaises
    \/ NarrChapter
    \/ NarrArc
    \/ NarrSequence
    \/ NarrContent
    \/ NarrReturn

NarrSpec == NarrInit /\ [][NarrNext]_vars

(***************************************************************************)
(* Properties of count_commands_by_map                                     *)
(***************************************************************************)
Rows == {density_df[i] : i \in DOMAIN density_df}

\* every command stored in the parsed tree
AllCommands ==
    UNION {UNION {{maps[i].events[j].commands[k] :
                      k \in DOMAIN maps[i].events[j].commands} :
                  j \in DOMAIN maps[i].events} :
           i \in DOMAIN maps}

\* number of commands stored in the events of one map
RECURSIVE StoredCommands(_)
StoredCommands(events) ==
    IF events = <<>> THEN 0
    ELSE Len(Head(events).commands) + StoredCommands(Tail(events))

\* C1: every map is classified from its density d = dialogue/total alone:
\* 'Story-Heavy' iff d > 0.7, 'Mixed' iff 0.3 < d <= 0.7, 'Combat/Traversal'
\* otherwise (a map without commands has d = 0); d = 0.3 exactly is
\* 'Combat/Traversal' and d = 0.7 exactly is 'Mixed'.
C1_ClassificationByDensity ==
    \A r \in Rows :
        LET d == r.dialogue_count
            t == r.total_commands
        IN  /\ (r.classification = "Story-Heavy") <=> (t > 0 /\ 10 * d > 7 * t)
            /\ (r.classification = "Mixed") <=>
                   (t > 0 /\ 10 * d > 3 * t /\ 10 * d <= 7 * t)
            /\ (r.classification = "Combat/Traversal") <=>
                   (t = 0 \/ 10 * d <= 3 * t)
            /\ (t > 0 /\ 10 * d = 3 * t) => r.classification = "Combat/Traversal"
            /\ (t > 0 /\ 10 * d = 7 * t) => r.classification = "Mixed"

\* a counted map with 3 Text commands out of 10: density exactly 0.3
C1_Witness ==
    /\ counted
    /\ \E r \in Rows : /\ r.dialogue_count = 3
                       /\ r.total_commands = 10
                       /\ r.classification = "Combat/Traversal"

\* C2: the density of every map lies in [0,1]; it is dialogue/total when
\* the map has commands and 0 when it has none, and the reported value
\* rounded to four decimals lies in [0,1] as well.
C2_DensityInUnitInterval ==
    \A r \in Rows :
        /\ r.density.den > 0
        /\ 0 <= r.density.num
        /\ r.density.num <= r.density.den
        /\ r.total_commands > 0 =>
              r.density.num * r.total_commands
                 = r.dialogue_count * r.density.den
        /\ r.total_commands = 0 => r.density.num = 0
        /\ r.narrative_density \in 0..10000

\* a counted tree with a map without commands and a map with dialogue
C2_Witness ==
    /\ counted
    /\ \E r \in Rows : r.total_commands = 0 /\ r.density.num = 0
    /\ \E r \in Rows : r.dialogue_count > 0

\* C3: for every map the six bucket counts sum to total_commands, and
\* total_commands is the number of commands stored in the map's events.
C3_BucketsSumToTotal ==
    counted =>
        /\ Len(density_df) = Len(maps)
        /\ \A i \in DOMAIN density_df :
              LET r == density_df[i]
              IN  /\ r.dialogue_count + r.battle_count + r.logic_count
                        + r.navigation_count + r.visual_audio_count
                        + r.other_count = r.total_commands
                  /\ r.total_commands = StoredCommands(maps[i].events)

\* a counted map that holds a Party command and a Text command
C3_Witness ==
    /\ counted
    /\ \E i \in DOMAIN density_df :
          /\ density_df[i].other_count > 0
          /\ density_df[i].dialogue_count > 0
          /\ \E j \in 1..Len(maps[i].events) :
                \E k \in 1..Len(maps[i].events[j].commands) :
                    maps[i].events[j].commands[k].normalized_type = "Party"

(***************************************************************************)
(* Properties of _normalize_type                                           *)
(***************************************************************************)
\* index of a category in the table
CategoryIndex(cat) ==
    CHOOSE i \in 1..Len(COMMAND_TYPES) : COMMAND_TYPES[i].category = cat

\* the keyword list of table entry i has the raw label as a member
LabelIsMember(i, label) ==
    \E k \in 1..Len(COMMAND_TYPES[i].patterns) :
        COMMAND_TYPES[i].patterns[k] = label

\* a keyword of table entry i occurs in the raw label as a substring
KeywordOccurs(i, label) ==
    \E k \in 1..Len(COMMAND_TYPES[i].patterns) :
        Contains(COMMAND_TYPES[i].patterns[k], label)

\* C4 as stated: the category of a command is the first category whose
\* keyword list has the raw label as a member, and 'Other' when the raw
\* label is a member of no list.
C4_MembershipCategory ==
    \A c \in AllCommands :
        LET hits == {i \in 1..Len(COMMAND_TYPES) : LabelIsMember(i, c.type)}
        IN  IF hits = {} THEN c.normalized_type = "Other"
            ELSE /\ CategoryIndex(c.normalized_type) \in hits
                 /\ \A j \in hits : CategoryIndex(c.normalized_type) <= j

\* C4 amended: the category of a command is a function of its raw label:
\* the first category, in declaration order, one of whose keywords occurs
\* in the raw label as a substring, and 'Other' when no keyword occurs.
C4_SubstringCategory ==
    /\ \A c \in AllCommands :
          /\ c.normalized_type \in Categories
          /\ c.normalized_type # "Other" =>
                /\ KeywordOccurs(CategoryIndex(c.normalized_type), c.type)
                /\ \A j \in 1..(CategoryIndex(c.normalized_type) - 1) :
                      ~KeywordOccurs(j, c.type)
          /\ c.normalized_type = "Other" =>
                \A j \in 1..Len(COMMAND_TYPES) : ~KeywordOccurs(j, c.type)
    /\ \A c1, c2 \in AllCommands :
          c1.type = c2.type => c1.normalized_type = c2.normalized_type

\* a parsed command whose label is a member of no keyword list and contains
\* keywords of two categories, next to a command whose label has no keyword
C4_Witness ==
    /\ \E c \in AllCommands :
          /\ c.type = <<"W", "a", "i", "t", " ", "f", "o", "r", " ", "M", "o", "v", "e", "'", "s", " ", "C", "o", "m", "p", "l", "e", "t", "i", "o", "n">>
          /\ c.normalized_type = "Navigation"
          /\ KeywordOccurs(CategoryIndex("Wait"), c.type)
          /\ \A i \in 1..Len(COMMAND_TYPES) : ~LabelIsMember(i, c.type)
    /\ \E c \in AllCommands : c.normalized_type = "Other"

(***************************************************************************)
(* Properties of parse_file                                                *)
(***************************************************************************)
\* C5: parse_file on the same input yields the same tree on every call,
\* on the same instance or on a fresh one; a later result does not hold
\* the maps of an earlier call on top of its own.
C5_ReparseIdentical ==
    \A i, j \in DOMAIN returned : returned[i] = returned[j]

\* two finished calls on a file that yields at least one map with an event
C5_Witness ==
    /\ Len(returned) = 2
    /\ returned[1].status = "ok"
    /\ \E i \in DOMAIN returned[2].maps : returned[2].maps[i].events # <<>>

(***************************************************************************)
(* Properties of main                                                      *)
(***************************************************************************)
Raised == {k \in DOMAIN outcome : outcome[k] = "raise"}

Succeeded == {k \in DOMAIN outcome : outcome[k] = "ok"}

\* C6: whichever analyses raise, the four analyses are attempted exactly
\* once each in the order exp1, exp2, exp3, exp4; a failure never stops the
\* run, and the failed analysis is recorded as an error entry, not metrics.
C6_AllAnalysesAttempted ==
    /\ Len(attempted) <= Len(Experiments)
    /\ attempted = SubSeq(Experiments, 1, Len(attempted))
    /\ pc \in {"footer", "done"} => attempted = Experiments
    /\ attempted # <<>> => pc \in {"exp2", "exp3", "exp4", "footer", "done"}
    /\ \A k \in Raised : results[k] = {"error"}
    /\ \A k \in Succeeded : "metrics" \in results[k]

\* a finished run in which the first two analyses failed and a later one
\* succeeded
C6_Witness ==
    /\ pc = "done"
    /\ {"exp1", "exp2"} \subseteq Raised
    /\ "exp3" \in Succeeded

\* C7: once the input-file check has passed, the run eventually prints the
\* final summary whatever analyses fail, and the summary has a metrics line
\* exactly for the analyses that succeeded.
C7_SummaryAlwaysPrinted ==
    /\ (pc = "exp1") ~> summary.printed
    /\ [](summary.printed => summary.metric_lines = Succeeded)

\* the summary was printed after a run with failed and succeeded analyses
C7_Witness ==
    /\ summary.printed
    /\ Raised # {}
    /\ Succeeded # {}
    /\ summary.metric_lines = Succeeded

Started == attempted # <<>> \/ pc \in {"exp1", "exp2", "exp3", "exp4",
                                       "footer", "done"}

\* C8 as stated: when a required file is missing or unreadable, no
\* analysis is ever started.
C8_MissingOrUnreadableAborts ==
    (\E f \in FileNames : files[f] # "ok") => ~Started

\* C8 amended: when a required file is missing, the run aborts before any
\* analysis starts.
C8_MissingAborts ==
    (\E f \in FileNames : files[f] = "missing") => ~Started

\* the run has exited at the file check because of a missing file, while
\* other files exist
C8_Witness ==
    /\ pc = "exited"
    /\ \E f \in FileNames : files[f] = "missing"
    /\ \E f \in FileNames : files[f] # "missing"

(***************************************************************************)
(* Properties of process_dialogues                                         *)
(***************************************************************************)
ProcessDone == d_idx = Len(dialogues)

AllKeywords == {(entities \o themes)[i] : i \in 1..Len(entities \o themes)}

\* C9: every key (x, y) of co_occurrence has x <= y, so an unordered pair
\* of keywords has at most one entry.
C9_CanonicalKeys ==
    /\ \A key \in DOMAIN co_occurrence : StrLE(key[1], key[2])
    /\ \A k1, k2 \in DOMAIN co_occurrence :
          {k1[1], k1[2]} = {k2[1], k2[2]} => k1 = k2

\* a dialogue was counted for two keywords that are listed in descending
\* order
C9_Witness ==
    /\ ProcessDone
    /\ \E key \in DOMAIN co_occurrence :
          /\ key[1] # key[2]
          /\ \E i, j \in 1..Len(entities \o themes) :
                /\ i < j
                /\ (entities \o themes)[i] = key[2]
                /\ (entities \o themes)[j] = key[1]

\* number of dialogues whose text contains both keywords
DialoguesWithBoth(a, b) ==
    Cardinality({i \in 1..Len(dialogues) :
                    /\ Contains(a, TextOf(dialogues[i]))
                    /\ Contains(b, TextOf(dialogues[i]))})

\* C10: after process_dialogues, the count of every unordered pair of
\* configured keywords is the number of dialogues that contain both, also
\* when the two lists share a keyword, and no entry pairs a keyword with
\* itself.
C10_CountIsDialogues ==
    ProcessDone =>
        /\ \A a, b \in AllKeywords :
              a # b => CoCount(co_occurrence,
                               IF StrLE(a, b) THEN <<a, b>> ELSE <<b, a>>)
                          = DialoguesWithBoth(a, b)
        /\ \A key \in DOMAIN co_occurrence : key[1] # key[2]

(***************************************************************************)
(* Properties of build_network                                             *)
(***************************************************************************)
\* the graph g is the thresholded co-occurrence co over the keywords kws
GraphOfCounts(g, co, kws) ==
    /\ \A key \in DOMAIN co :
          co[key] >= g.threshold =>
             /\ {key[1], key[2]} \in DOMAIN g.edges
             /\ g.edges[{key[1], key[2]}] = co[key]
    /\ \A e \in DOMAIN g.edges :
          \E key \in DOMAIN co : {key[1], key[2]} = e /\ co[key] >= g.threshold
    /\ g.nodes = {n \in kws : \E e \in DOMAIN g.edges : n \in e}

\* C11: build_network(threshold) leaves a graph with an edge exactly for
\* the co-occurrence pairs counted at least threshold times, weighted by
\* the count, and with exactly the keywords that are an endpoint of such
\* an edge as its nodes.
C11_GraphIsThresholdedCounts ==
    [][graph' # graph => GraphOfCounts(graph', co_occurrence', AllKeywords')]_vars

\* a built graph with an edge, a pair counted below the threshold and a
\* configured keyword that was removed as isolated
C11_Witness ==
    /\ graph.built
    /\ ProcessDone
    /\ DOMAIN graph.edges # {}
    /\ \E key \in DOMAIN co_occurrence : co_occurrence[key] < graph.threshold
    /\ \E key \in DOMAIN co_occurrence : co_occurrence[key] = graph.threshold
    /\ AllKeywords \ graph.nodes # {}
    /\ GraphOfCounts(graph, co_occurrence, AllKeywords)

(***************************************************************************)
(* Properties of the header lines of parse_file                            *)
(***************************************************************************)
IsMapIdLine(line) == StartsWith(line, <<"M", "a", "p", " ", "I", "D", ":">>)

IsEventIdLine(line) == StartsWith(line, <<"E", "v", "e", "n", "t", " ", "I", "D", ":">>)

\* the id of a header line is not numeric
BadId(line) == ~IsIntLiteral(Strip(SplitColon1(line)))

\* number of "Map ID:" lines among the first n lines of the file
MapHeadersUpTo(n) == Cardinality({l \in 1..n : IsMapIdLine(file[l])})

\* number of "Event ID:" lines that follow a "Map ID:" line, among the
\* first n lines of the file
EventHeadersUpTo(n) ==
    Cardinality({l \in 1..n : /\ IsEventIdLine(file[l])
                               /\ \E j \in 1..(l - 1) : IsMapIdLine(file[j])})

\* number of events stored in the tree
RECURSIVE StoredEvents(_)
StoredEvents(ms) ==
    IF ms = <<>> THEN 0 ELSE Len(Head(ms).events) + StoredEvents(Tail(ms))

\* C18 as stated: the scan never passes a "Map ID:" or "Event ID:" line
\* whose id is not numeric; such a line always makes the parse fail.
C18_EveryBadHeaderFails ==
    /\ \A i \in 1..line_num :
          (IsMapIdLine(file[i]) \/ IsEventIdLine(file[i])) => ~BadId(file[i])
    /\ pstate = "returned" =>
          \A i \in 1..Len(file) :
             (IsMapIdLine(file[i]) \/ IsEventIdLine(file[i])) => ~BadId(file[i])

\* C18 amended: a "Map ID:" line, and an "Event ID:" line read after a
\* Map header, whose id is not numeric makes the parse fail with a
\* ValueError: the scan never passes it and no Map or Event is created for
\* it.  An "Event ID:" line read before the first Map header is ignored
\* whatever its id.
C18_BadHeaderFails ==
    /\ \A i \in 1..line_num :
          /\ IsMapIdLine(file[i]) => ~BadId(file[i])
          /\ (IsEventIdLine(file[i]) /\ \E j \in 1..(i - 1) : IsMapIdLine(file[j]))
                => ~BadId(file[i])
    /\ pstate = "raised" =>
          /\ line_num < Len(file)
          /\ IsMapIdLine(file[line_num + 1]) \/ IsEventIdLine(file[line_num + 1])
          /\ BadId(file[line_num + 1])
          /\ returned[Len(returned)].status = "ValueError"
    /\ pstate \in {"scanning", "returned", "raised"} =>
          /\ Len(maps) = MapHeadersUpTo(line_num)
          /\ StoredEvents(maps) = EventHeadersUpTo(line_num)

\* the parse failed at an "Event ID:" line without a numeric id that
\* follows a Map header
C18_Witness ==
    /\ pstate = "raised"
    /\ line_num >= 1
    /\ IsEventIdLine(file[line_num + 1])
    /\ BadId(file[line_num + 1])
    /\ Len(maps) >= 1

\* C20: a "Map ID:" line resets the current event to None, so that a
\* command read after a Map header and before the map's first "Event ID:"
\* line is attached to no event: every stored command belongs to the map
\* whose header is the last one read before the command.
C20_MapHeaderResetsEvent ==
    /\ (pstate = "scanning" /\ line_num > 0 /\ IsMapIdLine(file[line_num]))
          => current_event = NoEvent
    /\ \A i \in DOMAIN maps :
          \A j \in DOMAIN maps[i].events :
             \A k \in DOMAIN maps[i].events[j].commands :
                MapHeadersUpTo(maps[i].events[j].commands[k].line) = i

\* the tree stays within one parse_file call across the step
SameScan == pstate = "scanning" /\ pstate' = "scanning"

\* C21: once the next Map header has been read, an earlier Map is not
\* changed by any later line: its name, its list of events and the name
\* and commands of each of its events stay as they are; and every event
\* is stored in exactly one Map, one event per "Event ID:" line.
C21_EarlierMapsImmutable ==
    [][SameScan =>
          /\ \A i \in 1..(Len(maps) - 1) : maps'[i] = maps[i]
          /\ StoredEvents(maps') = EventHeadersUpTo(line_num')]_vars

\* the continuation line being read in this step
ReadsContinuation ==
    /\ Scanning
    /\ StartsWith(Strip(CurLine), <<":", " ", " ", " ", " ", ":">>)

\* the commands of the current event, none without a current event
CurrentCommands ==
    IF current_event = NoEvent THEN <<>>
    ELSE maps[current_event.m].events[current_event.e].commands

\* C22: a continuation line appends its trailing content, after a newline,
\* to the last command of the current event exactly when that command's
\* category is Text; with a last command of another category, with no
\* command or with no current event the tree is left unchanged.
C22_ContinuationIffTextCategory ==
    [][ReadsContinuation =>
          LET cmds == CurrentCommands
              n    == Len(cmds)
          IN  IF n > 0 /\ cmds[n].normalized_type = "Text"
              THEN maps' =
                     [maps EXCEPT
                        ![current_event.m].events[current_event.e]
                           .commands[n].content =
                              @ \o ContinuationText(CurLine)]
              ELSE maps' = maps]_vars

(***************************************************************************)
(* Claims about StructuralAlignment                                        *)
(***************************************************************************)
\* the position of film beat i among the film beats of its type
FilmRank(i) ==
    Cardinality({j \in 1..i : film_beats[j].type = film_beats[i].type})

\* the positions of the game beats of type t
GamePositions(t) == {j \in 1..Len(game_beats) : game_beats[j].type = t}

\* the k-th game beat of type t, 0 when there are fewer than k
KthGame(t, k) ==
    IF k > Cardinality(GamePositions(t)) THEN 0
    ELSE CHOOSE j \in GamePositions(t) :
            Cardinality({h \in GamePositions(t) : h <= j}) = k

\* the reference beats that have a subject beat of their type and rank
MatchedBeats ==
    {i \in 1..Len(film_beats) : KthGame(film_beats[i].type, FilmRank(i)) # 0}

ScoreReturned ==
    /\ last_call.op = "calculate_alignment_score"
    /\ last_call.status = "ok"

TableComputed ==
    /\ alignment_table.built
    /\ alignment_table.has_columns

\* C12: the score returned by calculate_alignment_score is
\* matched_count / total_reference_beats * 100, matched_count being the
\* number of reference beats that were matched, and lies between 0 and 100
\* inclusive.
C12_ScoreIsMatchedShare ==
    ScoreReturned =>
       /\ alignment_score.den > 0
       /\ alignment_score.num * Len(film_beats)
             = 100 * Cardinality(MatchedBeats) * alignment_score.den
       /\ 0 <= alignment_score.num
       /\ alignment_score.num <= 100 * alignment_score.den

\* a score strictly between 0 and 100 was returned
C12_Witness ==
    /\ ScoreReturned
    /\ 0 < alignment_score.num
    /\ alignment_score.num < 100 * alignment_score.den

\* C13: with zero reference beats, computing the alignment and its score
\* completes without error and the score is 0.
C13_NoFilmBeatsScoreZero ==
    film_beats = <<>> =>
       /\ last_call.status = "ok"
       /\ ScoreReturned => alignment_score.num = 0

\* C14: the k-th reference beat of type T is matched to the k-th subject
\* beat of type T when it exists and is Unmatched otherwise; no subject
\* beat is matched twice and none is matched to a reference beat of
\* another type.
C14_FifoWithinType ==
    TableComputed =>
       LET rows == alignment_table.rows
       IN  /\ \A i \in 1..Len(film_beats) :
                \E n \in 1..Len(rows) : rows[n].film_idx = i
           /\ \A n \in 1..Len(rows) :
                LET i == rows[n].film_idx
                    g == KthGame(film_beats[i].type, FilmRank(i))
                IN  /\ rows[n].game_idx = g
                    /\ rows[n].Matched <=> g # 0
                    /\ g = 0 <=> rows[n].MatchType = "Unmatched"
                    /\ g # 0 =>
                         /\ game_beats[g].type = film_beats[i].type
                         /\ rows[n].GameBeat = game_beats[g].description
                         /\ rows[n].GameLocation.line = game_beats[g].line
                    /\ rows[n].FilmBeat = film_beats[i].description
           /\ \A n, m \in 1..Len(rows) :
                (n # m /\ rows[n].game_idx # 0)
                   => rows[n].game_idx # rows[m].game_idx

\* a table with two matched beats of one type, an unmatched beat of that
\* type and a subject beat of the other type
C14_Witness ==
    /\ TableComputed
    /\ \E n, m, u \in 1..Len(alignment_table.rows) :
          LET rows == alignment_table.rows
          IN  /\ n # m
              /\ rows[n].Matched /\ rows[m].Matched
              /\ rows[n].BeatType = rows[m].BeatType
              /\ ~rows[u].Matched
              /\ rows[u].BeatType = rows[n].BeatType
    /\ \E j \in 1..Len(game_beats) :
          \A n \in 1..Len(alignment_table.rows) :
             alignment_table.rows[n].game_idx # j

\* w is a word of s: a maximal run of s without whitespace, compared
\* without regard to case
HasWord(s, w) ==
    \E i \in 1..Len(s) :
       /\ i + Len(w) - 1 <= Len(s)
       /\ \A k \in 1..Len(w) : LowerChar(s[i + k - 1]) = w[k]
       /\ i = 1 \/ s[i - 1] \in Whitespace
       /\ i + Len(w) - 1 = Len(s) \/ s[i + Len(w)] \in Whitespace

SharedOverlapWord(a, b) ==
    \E w \in overlap_words : HasWord(a, w) /\ HasWord(b, w)

\* C15: a matched pair is 'Direct Transposition' exactly when the two
\* descriptions share a word of the overlap vocabulary, 'Structural
\* Homology' otherwise; 'soldier kills tank' with 'rebel destroys tank'
\* is a Direct Transposition and gives the score 100.
C15_TranspositionIffSharedWord ==
    /\ TableComputed =>
          \A n \in 1..Len(alignment_table.rows) :
             LET r == alignment_table.rows[n]
             IN  r.Matched =>
                    /\ r.MatchType \in {"Direct Transposition",
                                        "Structural Homology"}
                    /\ r.MatchType = "Direct Transposition"
                          <=> SharedOverlapWord(r.FilmBeat, r.GameBeat)
    /\ ( /\ ScoreReturned
         /\ Len(film_beats) = 1
         /\ Len(game_beats) = 1
         /\ film_beats[1].type = game_beats[1].type
         /\ film_beats[1].description = <<"s", "o", "l", "d", "i", "e", "r", " ", "k", "i", "l", "l", "s", " ", "t", "a", "n", "k">>
         /\ game_beats[1].description = <<"r", "e", "b", "e", "l", " ", "d", "e", "s", "t", "r", "o", "y", "s", " ", "t", "a", "n", "k">> )
          => /\ Len(alignment_table.rows) = 1
             /\ alignment_table.rows[1].MatchType = "Direct Transposition"
             /\ alignment_score.num = 100 * alignment_score.den

\* the documented example was scored: one matched entry, a Direct
\* Transposition, score 100
C15_Witness ==
    /\ ScoreReturned
    /\ Len(alignment_table.rows) = 1
    /\ alignment_table.rows[1].Matched
    /\ alignment_table.rows[1].FilmBeat = <<"s", "o", "l", "d", "i", "e", "r", " ", "k", "i", "l", "l", "s", " ", "t", "a", "n", "k">>
    /\ alignment_table.rows[1].GameBeat = <<"r", "e", "b", "e", "l", " ", "d", "e", "s", "t", "r", "o", "y", "s", " ", "t", "a", "n", "k">>
    /\ alignment_table.rows[1].MatchType = "Direct Transposition"
    /\ alignment_score.num = 100 * alignment_score.den

\* the sort key the documentation gives a timestamp: minutes from 'H:M:S'
\* or 'M:S' (in sixtieths), 0 for any other text
DocumentedKey(timestamp) ==
    IF TimestampRaises(timestamp) THEN 0 ELSE TimestampToMinutes(timestamp)

\* C16: the alignment output is ordered by the reference timestamp in
\* minutes; a timestamp that cannot be parsed (wrong number of fields or
\* non-numeric fields) gets sort key 0 and does not make compute_alignment
\* fail.
C16_UnparseableSortsAsZero ==
    /\ last_call.status # "ValueError"
    /\ (last_call.op = "compute_alignment" /\ last_call.status = "ok") =>
          \A n \in 1..(Len(alignment_table.rows) - 1) :
             DocumentedKey(alignment_table.rows[n].FilmTimestamp)
                <= DocumentedKey(alignment_table.rows[n + 1].FilmTimestamp)

(***************************************************************************)
(* Claims about MotifEvolution                                             *)
(***************************************************************************)
\* kw occurs in text as a substring
OccursIn(kw, text) ==
    \E i \in 1..(Len(text) + 1) :
       \A k \in 1..Len(kw) : i + k - 1 <= Len(text) /\ text[i + k - 1] = kw[k]

\* the number of the keywords of category c that occur in text
Occurring(c, text) ==
    Cardinality({k \in 1..Len(context_keywords[c].keywords) :
                    OccursIn(context_keywords[c].keywords[k], text)})

\* C17: for each dialogue containing the motif, the score of each
\* configured category is the number of its keywords occurring as
\* substrings of the text, and the dominant context is the category with
\* the highest score, the one declared first in a tie, or 'neutral' when
\* every score is 0.
C17_ScoresAndDominant ==
    \A n \in 1..Len(instances) :
       LET inst == instances[n]
           text == motif_dialogues[inst.line].text
           cats == 1..Len(context_keywords)
       IN  /\ OccursIn(motif, text)
           /\ Len(inst.scores) = Len(context_keywords)
           /\ \A c \in cats :
                 /\ inst.scores[c].category = context_keywords[c].category
                 /\ inst.scores[c].score = Occurring(c, text)
           /\ IF \A c \in cats : Occurring(c, text) = 0
              THEN inst.dominant_context = "neutral"
              ELSE \E c \in cats :
                      /\ inst.dominant_context = context_keywords[c].category
                      /\ \A o \in cats : Occurring(o, text) <= Occurring(c, text)
                      /\ \A o \in 1..(c - 1) : Occurring(o, text) < Occurring(c, text)

\* the documented example was scored (innocence 1, military 0, dominant
\* innocence), and a tie between the two categories went to the one
\* declared first
C17_Witness ==
    /\ m_idx = Len(motif_dialogues)
    /\ \E n \in 1..Len(instances) :
          /\ context_keywords = << [category |-> "innocence", keywords |-> << <<"h", "o", "m", "e">> >>],
                                   [category |-> "military", keywords |-> << <<"w", "a", "r">> >>] >>
          /\ instances[n].text = <<"I", " ", "m", "i", "s", "s", " ", "h", "o", "m", "e">>
          /\ instances[n].scores = << [category |-> "innocence", score |-> 1],
                                      [category |-> "military", score |-> 0] >>
          /\ instances[n].dominant_context = "innocence"
    /\ \E n \in 1..Len(instances) :
          /\ instances[n].scores[1].score = instances[n].scores[2].score
          /\ instances[n].scores[1].score > 0
          /\ instances[n].dominant_context = "innocence"

(***************************************************************************)
(* Claims about NarrativeExtractionParser                                  *)
(***************************************************************************)
IsArcHeading(p) == ~ChapterMatch(n_lines[p]) /\ ArcMatch(n_lines[p])

IsSequenceHeading(p) ==
    /\ ~ChapterMatch(n_lines[p])
    /\ ~ArcMatch(n_lines[p])
    /\ SeqMatch(n_lines[p])

IsContentLine(p) ==
    /\ ~ChapterMatch(n_lines[p])
    /\ ~ArcMatch(n_lines[p])
    /\ ~SeqMatch(n_lines[p])

\* the id of the last arc heading before line p, None when there is none
ArcBefore(p) ==
    LET hs == {k \in 1..(p - 1) : IsArcHeading(k)}
    IN  IF hs = {} THEN None
        ELSE Some(HeadingId(n_lines[CHOOSE k \in hs : \A j \in hs : j <= k],
                            ArcPrefix, 2))

\* the sequence headings up to line p that have no arc heading before them
OrphanSequences(p) ==
    {k \in 1..p : IsSequenceHeading(k) /\ ArcBefore(k) = None}

RECURSIVE StoredSequences(_)
StoredSequences(arc_list) ==
    IF arc_list = <<>> THEN 0
    ELSE Len(Head(arc_list).sequences) + StoredSequences(Tail(arc_list))

\* C19: a sequence heading that appears before any arc heading raises no
\* error (parse_file fails only on a file it cannot read), the scan goes on
\* to the end of the input, and the records produced carry None for the
\* missing arc: every beat and dialogue holds the id of the last arc
\* heading before its line or None, every beat and quotation line read so
\* far has its record, and no arc is made up for the sequence.
C19_OrphanSequenceTolerated ==
    /\ nstate = "raised" => ~n_readable
    /\ nstate = "returned" => n_i = Len(n_lines)
    /\ nstate \in {"scanning", "returned"} =>
          /\ \A b \in 1..Len(beats) :
                /\ beats[b].line_num <= n_i
                /\ beats[b].arc = ArcBefore(beats[b].line_num)
          /\ \A d \in 1..Len(n_dialogues) :
                /\ n_dialogues[d].line_num <= n_i
                /\ n_dialogues[d].arc = ArcBefore(n_dialogues[d].line_num)
          /\ \A p \in 1..n_i :
                /\ (IsContentLine(p) /\ BeatMatch(n_lines[p]))
                      => \E b \in 1..Len(beats) : beats[b].line_num = p
                /\ (IsContentLine(p) /\ QuoteAt(n_lines[p]) # {})
                      => \E d \in 1..Len(n_dialogues) :
                            n_dialogues[d].line_num = p
          /\ Len(arcs) = Cardinality({k \in 1..n_i : IsArcHeading(k)})
          /\ StoredSequences(arcs) =
                Cardinality({k \in 1..n_i : IsSequenceHeading(k)
                                              /\ ArcBefore(k) # None})

\* parse_file returned for an input that starts with a sequence heading,
\* goes on with a beat and a dialogue, which carry no arc, and then has an
\* arc heading
C19_Witness ==
    /\ nstate = "returned"
    /\ 1 \in OrphanSequences(Len(n_lines))
    /\ \E b \in 1..Len(beats) :
          /\ beats[b].arc = None
          /\ beats[b].sequence # None
          /\ \E d \in 1..Len(n_dialogues) :
                /\ n_dialogues[d].arc = None
                /\ n_dialogues[d].line_num >= beats[b].line_num
    /\ Len(arcs) = 1
    /\ arcs[1].sequences = <<>>

\* the step reads a sequence heading
ReadsSequenceHeading ==
    /\ NarrScanning
    /\ IsSequenceHeading(n_i + 1)

\* C23 as stated: the sub-scan made on a sequence heading moves the cursor
\* of the outer scan past the lines it consumed, so that the outer scan
\* goes on at the line where the sub-scan stopped.
C23_CursorPastSubScan ==
    [][ReadsSequenceHeading => n_i' = BlockScanEnd(n_lines, n_i + 2) - 1]_vars

\* C23 amended: the sub-scan works on an index of its own; after a
\* sequence heading the outer scan goes on at the line right after the
\* heading, and every scanning step moves the cursor by exactly one line,
\* so the lines of the block are read by both scans.
C23_CursorMovesOneLine ==
    [][(NarrScanning /\ nstate' = "scanning") => n_i' = n_i + 1]_vars

\* a beat was produced by the outer scan from a line of the block that the
\* sub-scan of a stored sequence had read before
C23_Witness ==
    /\ nstate = "returned"
    /\ \E p \in 1..Len(n_lines) :
          /\ IsSequenceHeading(p)
          /\ ArcBefore(p) # None
          /\ \E b \in 1..Len(beats) :
                /\ beats[b].line_num > p
                /\ beats[b].line_num < BlockScanEnd(n_lines, p + 1)

\* the sequence records of all arcs, in the order they were stored
RECURSIVE AllSequences(_)
AllSequences(arc_list) ==
    IF arc_list = <<>> THEN <<>>
    ELSE Head(arc_list).sequences \o AllSequences(Tail(arc_list))

\* the sequence headings read so far that follow an arc heading
StoredHeadings == {p \in 1..n_i : IsSequenceHeading(p) /\ ArcBefore(p) # None}

\* the line of the heading of the k-th stored sequence
HeadingOf(k) ==
    CHOOSE p \in StoredHeadings :
       Cardinality({q \in StoredHeadings : q <= p}) = k

\* a chapter, arc or sequence heading
IsHeading(p) ==
    ChapterMatch(n_lines[p]) \/ ArcMatch(n_lines[p]) \/ SeqMatch(n_lines[p])

\* the block of the sequence heading at line p: the lines after it up to
\* the next heading of equal or shallower depth
BlockOf(p) ==
    {q \in (p + 1)..Len(n_lines) : \A h \in (p + 1)..q : ~IsHeading(h)}

\* the '##### Summary' sub-headings of the block
SummaryHeadings(p) ==
    {q \in BlockOf(p) : Strip(n_lines[q]) = <<"#", "#", "#", "#", "#", " ", "S", "u", "m", "m", "a", "r", "y">>}

FirstOf(S) == CHOOSE q \in S : \A r \in S : q <= r

LastOf(S) == CHOOSE q \in S : \A r \in S : r <= q

\* the lines of the Summary sub-section: those of the block after the
\* sub-heading and before the next line that starts a heading
SummaryLines(p) ==
    LET s == FirstOf(SummaryHeadings(p))
    IN  {q \in BlockOf(p) :
            /\ q > s
            /\ \A h \in (s + 1)..q : ~StartsWith(n_lines[h], <<"#">>)}

\* the lines of the block written before its Summary sub-section
FieldLines(p) ==
    {q \in BlockOf(p) : \A s \in SummaryHeadings(p) : q < s}

LocationLines(p) == {q \in FieldLines(p) : LocationMatch(n_lines[q])}

SourceLinesOf(p) == {q \in FieldLines(p) : SourceAt(n_lines[q]) # {}}

\* C24: the summary of a parsed sequence whose block has a
\* '##### Summary' sub-heading is the non-empty lines of that sub-section
\* joined by single spaces, and its location with map and event ids and
\* its source line range are those written in the block ('Lines a-b'
\* gives (a, b), 'Line n' gives (n, n)).
C24_SummaryLocationSource ==
    nstate \in {"scanning", "returned"} =>
       \A k \in 1..Len(AllSequences(arcs)) :
          LET rec == AllSequences(arcs)[k]
              p   == HeadingOf(k)
          IN  /\ SummaryHeadings(p) # {} =>
                   rec.summary =
                      IF SummaryLines(p) = {} THEN <<>>
                      ELSE JoinStripped(n_lines, FirstOf(SummaryLines(p)),
                                        LastOf(SummaryLines(p)))
              /\ LocationLines(p) # {} =>
                   /\ rec.location.has
                   /\ \E q \in LocationLines(p) :
                         LET loc == LocationText(n_lines[q])
                         IN  /\ rec.location.val = loc
                             /\ NumberedAt(<<"M", "a", "p", " ">>, loc) # {} =>
                                   rec.map_id = Some(NumberAfter(<<"M", "a", "p", " ">>, loc))
                             /\ NumberedAt(<<"E", "v", "e", "n", "t", " ">>, loc) # {} =>
                                   rec.event_id = Some(NumberAfter(<<"E", "v", "e", "n", "t", " ">>, loc))
              /\ SourceLinesOf(p) # {} =>
                   /\ rec.source_lines.has
                   /\ \E q \in SourceLinesOf(p) :
                         rec.source_lines.val = SourceLines(n_lines[q])

\* C25: the sub-scan of a sequence stops at the first following sequence,
\* arc or chapter heading: a Location or Source field is attributed to a
\* sequence only when it is written in the block of that sequence.
C25_FieldsFromOwnBlock ==
    nstate \in {"scanning", "returned"} =>
       \A k \in 1..Len(AllSequences(arcs)) :
          LET rec == AllSequences(arcs)[k]
              p   == HeadingOf(k)
          IN  /\ rec.location.has =>
                   \E q \in BlockOf(p) : LocationMatch(n_lines[q])
              /\ (rec.map_id.has \/ rec.event_id.has) => rec.location.has
              /\ rec.source_lines.has =>
                   \E q \in BlockOf(p) : SourceAt(n_lines[q]) # {}

\* the following line is prefixed by an em dash or an en dash
DashPrefixed(p) ==
    /\ p + 1 <= Len(n_lines)
    /\ LStrip(n_lines[p + 1]) # <<>>
    /\ LStrip(n_lines[p + 1])[1] \in {"U+2014", "U+2013"}

\* the name written after that dash
DashName(p) == Strip(Tail(LStrip(n_lines[p + 1])))

\* the colons of a leading '> Speaker:' on the line of the quotation: the
\* line starts with '>' and the colon stands before the quotation
LeadColons(p) ==
    LET line == n_lines[p]
        quote == CHOOSE q \in QuoteAt(line) : \A r \in QuoteAt(line) : q <= r
    IN  IF line # <<>> /\ line[1] = ">"
        THEN {c \in 3..(quote - 1) : line[c] \in Colons}
        ELSE {}

LeadName(p) == Strip(SubSeq(n_lines[p], 2, FirstOf(LeadColons(p)) - 1))

\* C26: the speaker of a dialogue is the name on the following line when
\* that line is prefixed by an em or en dash; otherwise the name of a
\* leading '> Speaker:' on the line of the quotation; otherwise absent. A
\* following line that does not begin with a dash supplies no speaker.
C26_SpeakerResolution ==
    nstate \in {"scanning", "returned"} =>
       \A k \in 1..Len(n_dialogues) :
          LET p == n_dialogues[k].line_num
          IN  n_dialogues[k].speaker =
                 IF DashPrefixed(p) THEN Some(DashName(p))
                 ELSE IF LeadColons(p) # {} THEN Some(LeadName(p))
                 ELSE None

\* the id of the last chapter heading before line p, None when there is none
ChapterBefore(p) ==
    LET hs == {k \in 1..(p - 1) : ChapterMatch(n_lines[k])}
    IN  IF hs = {} THEN None
        ELSE Some(HeadingId(n_lines[LastOf(hs)], ChapterPrefix, 1))

\* id is an id one level below parent: parent, a dot, and more
ChildId(id, parent) == StartsWith(id, parent \o <<".">>)

\* the heading ids of the outline are hierarchically consistent: every arc
\* id extends the id of the chapter it is written in, every sequence id the
\* id of the arc it is written in
ConsistentOutline ==
    \A p \in 1..Len(n_lines) :
       /\ IsArcHeading(p) =>
             /\ ChapterBefore(p) # None
             /\ ChildId(HeadingId(n_lines[p], ArcPrefix, 2), ChapterBefore(p).val)
       /\ IsSequenceHeading(p) =>
             /\ ArcBefore(p) # None
             /\ ChildId(HeadingId(n_lines[p], SequencePrefix, 3), ArcBefore(p).val)

ContextConsistent(r) ==
    /\ r.sequence.has => r.arc.has /\ ChildId(r.sequence.val, r.arc.val)
    /\ r.arc.has => r.chapter.has /\ ChildId(r.arc.val, r.chapter.val)

\* C27: for an outline whose heading ids are hierarchically consistent,
\* every beat and dialogue carries a consistent context: its sequence id,
\* when present, extends its arc id and its arc id extends its chapter id,
\* so a record read after a new chapter or arc heading does not keep the
\* arc or sequence id of the previous one.
C27_ContextConsistent ==
    (nstate \in {"scanning", "returned"} /\ ConsistentOutline) =>
       /\ \A k \in 1..Len(beats) : ContextConsistent(beats[k])
       /\ \A k \in 1..Len(n_dialogues) : ContextConsistent(n_dialogues[k])

\* the number of beats of type t in a beat list
BeatsOfType(beat_list, t) ==
    Cardinality({i \in 1..Len(beat_list) : beat_list[i].type = t})

Min(a, b) == IF a <= b THEN a ELSE b

\* the sum over the structural types T of a set of min(reference beats of
\* type T, subject beats of type T)
RECURSIVE MatchableIn(_)
MatchableIn(types) ==
    IF types = {} THEN 0
    ELSE LET t == CHOOSE y \in types : TRUE
         IN  Min(BeatsOfType(film_beats, t), BeatsOfType(game_beats, t))
                + MatchableIn(types \ {t})

MatchableBeats ==
    MatchableIn({film_beats[i].type : i \in 1..Len(film_beats)}
                   \cup {game_beats[i].type : i \in 1..Len(game_beats)})

\* C28: the alignment table built by compute_alignment has exactly one row
\* per reference beat and its number of matched rows is the sum over the
\* structural types T of min(reference beats of type T, subject beats of
\* type T); in the dictionary of get_metrics, matched_beats plus
\* unmatched_beats is total_film_beats.
C28_OneRowPerReferenceBeat ==
    /\ alignment_table.built =>
          LET rows == alignment_table.rows
          IN  /\ Len(rows) = Len(film_beats)
              /\ \A i \in 1..Len(film_beats) :
                    Cardinality({n \in 1..Len(rows) : rows[n].film_idx = i}) = 1
              /\ MatchedSum(rows) = MatchableBeats
    /\ align_metrics.returned =>
          /\ align_metrics.matched_beats + align_metrics.unmatched_beats
                = align_metrics.total_film_beats
          /\ align_metrics.matched_beats = MatchableBeats

\* get_metrics returned for a table with a matched and an unmatched row,
\* two reference beats of one type and a subject beat of another type
C28_Witness ==
    /\ last_call = [op |-> "get_metrics", status |-> "ok"]
    /\ align_metrics.returned
    /\ align_metrics.matched_beats > 0
    /\ align_metrics.unmatched_beats > 0
    /\ \E i, j \in 1..Len(film_beats) :
          i # j /\ film_beats[i].type = film_beats[j].type
    /\ \E g \in 1..Len(game_beats) :
          \A i \in 1..Len(film_beats) : film_beats[i].type # game_beats[g].type

\* the dominant contexts of the instances of an arc
DominantContextsOf(arc) ==
    {instances[i].dominant_context :
        i \in {j \in 1..Len(instances) : instances[j].arc = arc}}

\* the number of instances of an arc with a dominant context
InstancesOf(arc, context) ==
    Cardinality({i \in 1..Len(instances) :
                    /\ instances[i].arc = arc
                    /\ instances[i].dominant_context = context})

EvolutionAnalyzed ==
    /\ evolution_df.built
    /\ m_idx = Len(motif_dialogues)

\* C29: in every arc row of analyze_evolution the instance counts behind
\* the Innocence, Military, Posthuman and Neutral columns add up to the
\* row's Total Instances, whatever the configured context categories, and
\* the row's Dominant Context is a dominant context with the largest
\* instance count in the arc.
C29_ColumnsCoverInstances ==
    EvolutionAnalyzed =>
       \A n \in 1..Len(evolution_df.rows) :
          LET row == evolution_df.rows[n]
              arc == row.Arc
          IN  /\ InstancesOf(arc, "innocence") + InstancesOf(arc, "military")
                    + InstancesOf(arc, "posthuman") + InstancesOf(arc, "neutral")
                    = row.TotalInstances
              /\ \E c \in DominantContextsOf(arc) :
                    /\ row.DominantContext = ContextTitle(c)
                    /\ \A o \in DominantContextsOf(arc) :
                          InstancesOf(arc, o) <= InstancesOf(arc, c)

(***************************************************************************)
(* Claims about the communities of SemanticNetwork                         *)
(***************************************************************************)
\* the sum of the values of a function from a finite set to numbers
RECURSIVE SumValues(_)
SumValues(f) ==
    IF DOMAIN f = {} THEN 0
    ELSE LET x == CHOOSE y \in DOMAIN f : TRUE
         IN  f[x] + SumValues([y \in DOMAIN f \ {x} |-> f[y]])

\* a step of calculate_metrics that returns a new dictionary for a graph
\* with nodes, communities having been detected
ReportsCommunities ==
    /\ net_metrics' # net_metrics
    /\ graph.built
    /\ graph.nodes # {}
    /\ communities # <<>>

\* C30: whatever calls of process_dialogues, build_network and
\* detect_communities came before, calculate_metrics reports communities
\* that cover exactly the current graph: the assignment has one entry per
\* node of the graph and none for a removed node, and the community sizes
\* add up to num_nodes.
C30_CommunitiesCoverGraph ==
    [][ReportsCommunities =>
          /\ DOMAIN communities = graph.nodes
          /\ net_metrics'.has_sizes
          /\ SumValues(net_metrics'.community_sizes) = net_metrics'.num_nodes]_vars
====
